---------------------------- MODULE Spec2Model ----------------------------
(***************************************************************************)
(* A model of the retrieval and ranking engine of the competition Q&A      *)
(* service: SimpleRAG (index build / persist / load, keyword extraction,   *)
(* multi-factor scoring, threshold-relaxing search), the structured        *)
(* exact-match store StructuredCompetitionKB and the QueryRouter.          *)
(*                                                                         *)
(* Texts are sequences of one-character strings.  Scores are exact         *)
(* rationals [n |-> numerator, d |-> denominator] in lowest terms, so the  *)
(* comparisons the code makes on floats (>= threshold, < 0.2, sorting)     *)
(* are made on the values the float expressions denote.                    *)
(* Python's None and the empty string, which the code only ever tests for  *)
(* truthiness where a competition type is concerned, are both <<>>.        *)
(***************************************************************************)
EXTENDS Integers, Sequences, FiniteSets, TLC

(***************************************************************************)
(* Bounds of the model.                                                    *)
(***************************************************************************)
MaxDocLen == 3      \* longest chunk text the scorer is applied to
MaxTermLen == 2     \* longest query term the scorer is applied to
MaxTopN == 3        \* largest top_n search is called with
MaxEvents == 2      \* changes the environment makes to the files and artifacts
MaxParagraphs == 3   \* lines of a text handed to _split_text

(***************************************************************************)
(* Rationals.                                                              *)
(***************************************************************************)
RECURSIVE GCD(_, _)
GCD(a, b) == IF b = 0 THEN a ELSE GCD(b, a % b)

Abs(x) == IF x < 0 THEN -x ELSE x

Frac(n, d) ==
    LET g == GCD(Abs(n), d)
    IN  IF n = 0 THEN [n |-> 0, d |-> 1] ELSE [n |-> n \div g, d |-> d \div g]

RZero == [n |-> 0, d |-> 1]
ROne == [n |-> 1, d |-> 1]
\* (common factors are divided out before multiplying, to keep the numbers small)
RAdd(x, y) ==
    LET g == GCD(x.d, y.d)
    IN  Frac(x.n * (y.d \div g) + y.n * (x.d \div g), (x.d \div g) * y.d)
RMul(x, y) ==
    IF x.n = 0 \/ y.n = 0 THEN [n |-> 0, d |-> 1]
    ELSE LET g1 == GCD(Abs(x.n), y.d)
             g2 == GCD(Abs(y.n), x.d)
         IN  Frac((x.n \div g1) * (y.n \div g2), (x.d \div g2) * (y.d \div g1))
RLt(x, y) ==
    LET g == GCD(x.d, y.d) IN x.n * (y.d \div g) < y.n * (x.d \div g)
RLe(x, y) ==
    LET g == GCD(x.d, y.d) IN x.n * (y.d \div g) <= y.n * (x.d \div g)
RMin(x, y) == IF RLe(x, y) THEN x ELSE y
RMax(x, y) == IF RLe(x, y) THEN y ELSE x

(***************************************************************************)
(* Text.  " " is the only whitespace of the alphabet; every other          *)
(* character is a letter.  "A" is a capital with lower case "a"; "S" is    *)
(* GREEK CAPITAL LETTER SIGMA, "s" is GREEK SMALL LETTER SIGMA and "f" is   *)
(* GREEK SMALL LETTER FINAL SIGMA.                                         *)
(***************************************************************************)
Str(chars, n) == UNION {[1..k -> chars] : k \in 0..n}

IsSpace(c) == c \in {" ", "\n"}
Cased(c) == ~IsSpace(c)

\* str.lower() of one character in its context: Python lowers a capital sigma
\* to the final sigma when a cased character precedes it and none follows it.
LowerAt(s, i) ==
    IF s[i] = "A" THEN "a"
    ELSE IF s[i] = "S"
         THEN IF /\ i > 1 /\ Cased(s[i - 1])
                 /\ (i = Len(s) \/ ~Cased(s[i + 1]))
              THEN "f" ELSE "s"
         ELSE s[i]

\* str.lower()
Lower(s) == [i \in 1..Len(s) |-> LowerAt(s, i)]

\* p occurs in s at (1-based) position i
OccursAt(s, p, i) ==
    /\ i + Len(p) - 1 <= Len(s)
    /\ \A j \in 1..Len(p) : s[i + j - 1] = p[j]

\* Python's `p in s`
Contains(s, p) == \E i \in 1..(Len(s) + 1) : OccursAt(s, p, i)

\* Python's s.find(p): 0-based index of the first occurrence, -1 if none
Find(s, p) ==
    IF Contains(s, p)
    THEN (CHOOSE i \in 1..(Len(s) + 1) :
             /\ OccursAt(s, p, i)
             /\ \A j \in 1..(i - 1) : ~OccursAt(s, p, j)) - 1
    ELSE -1

\* Python's s.count(p): non-overlapping occurrences, len(s) + 1 for p = ""
RECURSIVE CountFrom(_, _, _)
CountFrom(s, p, i) ==
    IF i + Len(p) - 1 > Len(s) THEN 0
    ELSE IF OccursAt(s, p, i) THEN 1 + CountFrom(s, p, i + Len(p))
         ELSE CountFrom(s, p, i + 1)

Count(s, p) == IF p = <<>> THEN Len(s) + 1 ELSE CountFrom(s, p, 1)

\* Python's s.split(): the maximal runs of non-whitespace characters
RECURSIVE SplitFrom(_, _, _)
SplitFrom(s, i, cur) ==
    IF i > Len(s) THEN (IF cur = <<>> THEN <<>> ELSE <<cur>>)
    ELSE IF IsSpace(s[i])
         THEN (IF cur = <<>> THEN <<>> ELSE <<cur>>) \o SplitFrom(s, i + 1, <<>>)
         ELSE SplitFrom(s, i + 1, Append(cur, s[i]))

Split(s) == SplitFrom(s, 1, <<>>)

SeqToSet(q) == {q[i] : i \in 1..Len(q)}

(***************************************************************************)
(* Configuration (src/config.py) and the term tables of SimpleRAG.         *)
(* Names that are Chinese phrases in the source are short stand-ins over   *)
(* the model's alphabet:                                                   *)
(*   COMPETITION_TYPES          "ca", "bbc"   (two competition names)      *)
(*   COMPETITION_KEYWORDS       "bb"          (a keyword of "bbc")         *)
(*   COMPETITION_TERMS          "ca" (also a name), "ab", "ba"             *)
(*   CRITICAL_PHRASES_SCORING   "ba" -> 3.0, and eight phrases over "d"    *)
(*                              and "e", two of them inside the others as  *)
(*                              "要求" and "标准" are in the source          *)
(***************************************************************************)
COMPETITION_TYPES == << <<"c", "a">>, <<"b", "b", "c">> >>
COMPETITION_KEYWORDS == << <<"b", "b">> >>
COMPETITION_TERMS == << <<"c", "a">>, <<"a", "b">>, <<"b", "a">> >>
CRITICAL_PHRASES_SCORING ==
    << [phrase |-> <<"b", "a">>, bonus |-> Frac(3, 1)],
       [phrase |-> <<"d", "d">>, bonus |-> Frac(14, 5)],
       [phrase |-> <<"d", "e">>, bonus |-> Frac(27, 10)],
       [phrase |-> <<"e", "d">>, bonus |-> Frac(5, 2)],
       [phrase |-> <<"e", "e">>, bonus |-> Frac(5, 2)],
       [phrase |-> <<"d", "d", "e">>, bonus |-> Frac(5, 2)],
       [phrase |-> <<"e", "e", "d">>, bonus |-> Frac(23, 10)],
       [phrase |-> <<"d">>, bonus |-> Frac(9, 5)],
       [phrase |-> <<"e">>, bonus |-> Frac(17, 10)] >>
KEYWORD_MATCH_BASE_WEIGHT == Frac(3, 2)
COMPETITION_TYPE_BOOST_FACTOR == Frac(5, 2)
DIRECT_QUERY_MATCH_BONUS == Frac(4, 1)
RAG_SCORE_THRESHOLD == Frac(3, 100)

(***************************************************************************)
(* SimpleRAG._calculate_score                                              *)
(***************************************************************************)
\* the weight one matched keyword adds (step 1 of the score)
KeywordWeight(kw, doc_lower) ==
    LET kw_lower == Lower(kw)
        length_factor == RAdd(ROne, RMin(Frac(Len(kw), 5), Frac(2, 1)))
        kw_count == Count(doc_lower, kw_lower)
        frequency_factor == RMin(RAdd(ROne, Frac(kw_count, 10)), Frac(2, 1))
        position_index == Find(doc_lower, kw_lower)
        position_factor ==
            IF position_index * 5 < Len(doc_lower) THEN Frac(3, 2)
            ELSE IF position_index * 2 < Len(doc_lower) THEN Frac(5, 4)
                 ELSE ROne
        term_bonus == IF kw \in SeqToSet(COMPETITION_TERMS) THEN Frac(3, 2) ELSE ROne
    IN  RMul(RMul(RMul(RMul(KEYWORD_MATCH_BASE_WEIGHT, length_factor),
                       frequency_factor), position_factor), term_bonus)

KeywordMatches(kw, doc_lower) == Contains(doc_lower, Lower(kw))

RECURSIVE KeywordScore(_, _, _)
KeywordScore(keywords, doc_lower, i) ==
    IF i > Len(keywords) THEN RZero
    ELSE RAdd(IF KeywordMatches(keywords[i], doc_lower)
              THEN KeywordWeight(keywords[i], doc_lower) ELSE RZero,
              KeywordScore(keywords, doc_lower, i + 1))

\* step 2: coverage adjustment, applied only to a positive score
CoverageAdjusted(score, keywords, doc_lower) ==
    LET matched_keywords ==
            {kw \in SeqToSet(keywords) : KeywordMatches(kw, doc_lower)}
        coverage_factor ==
            RAdd(Frac(1, 2), Frac(Cardinality(matched_keywords), Len(keywords)))
    IN  IF keywords # <<>> /\ RLt(RZero, score)
        THEN RMul(score, coverage_factor) ELSE score

\* step 3: the bonus for the query, or clauses of it, occurring in the chunk
RECURSIVE PartBonus(_, _, _, _)
PartBonus(parts, doc_lower, query_len, i) ==
    IF i > Len(parts) THEN RZero
    ELSE RAdd(IF Len(parts[i]) > 3 /\ Contains(doc_lower, parts[i])
              THEN RMul(DIRECT_QUERY_MATCH_BONUS,
                        RAdd(Frac(1, 2), Frac(Len(parts[i]), 2 * query_len)))
              ELSE RZero,
              PartBonus(parts, doc_lower, query_len, i + 1))

DirectMatchBonus(query_lower, doc_lower) ==
    IF Len(query_lower) > 2
    THEN IF Contains(doc_lower, query_lower)
         THEN RMul(DIRECT_QUERY_MATCH_BONUS, Frac(2, 1))
         ELSE PartBonus(Split(query_lower), doc_lower, Len(query_lower), 1)
    ELSE RZero

\* step 4: critical phrases, doubled when the query holds the phrase too
RECURSIVE PhraseBonus(_, _, _)
PhraseBonus(query_lower, doc_lower, i) ==
    IF i > Len(CRITICAL_PHRASES_SCORING) THEN RZero
    ELSE LET e == CRITICAL_PHRASES_SCORING[i]
         IN  RAdd(IF Contains(doc_lower, Lower(e.phrase))
                  THEN IF Contains(query_lower, Lower(e.phrase))
                       THEN RMul(e.bonus, Frac(2, 1)) ELSE e.bonus
                  ELSE RZero,
                  PhraseBonus(query_lower, doc_lower, i + 1))

\* step 5: whether the competition-type boost applies
TypeBoostApplies(query, doc_competition, competition_type) ==
    /\ competition_type # <<>>
    /\ doc_competition # <<>>
    /\ \/ Contains(Lower(doc_competition), Lower(competition_type))
       \/ Contains(Lower(competition_type), Lower(doc_competition))
       \/ Contains(doc_competition, query)

TypeBoosted(score, query, doc_competition, competition_type) ==
    IF TypeBoostApplies(query, doc_competition, competition_type)
    THEN RMul(score, IF RLt(score, Frac(1, 5))
                     THEN RMul(COMPETITION_TYPE_BOOST_FACTOR, Frac(3, 2))
                     ELSE COMPETITION_TYPE_BOOST_FACTOR)
    ELSE score

\* step 6: length normalisation, applied only to a positive score
LengthAdjusted(score, doc_lower) ==
    LET word_count == Len(Split(doc_lower))
        over == IF word_count - 200 < 300 THEN word_count - 200 ELSE 300
        length_factor ==
            IF word_count < 20 THEN Frac(80 + word_count, 100)
            ELSE IF word_count > 200 THEN Frac(1500 - over, 1500)
                 ELSE ROne
    IN  IF length_factor # ROne /\ RLt(RZero, score)
        THEN RMul(score, length_factor) ELSE score

CalculateScore(query, doc_text, keywords, doc_competition, competition_type) ==
    IF doc_text = <<>> \/ doc_text = <<"null">> \/ (keywords = <<>> /\ query = <<>>)
    THEN RZero
    ELSE LET doc_lower == Lower(doc_text)
             query_lower == Lower(query)
             s1 == KeywordScore(keywords, doc_lower, 1)
             s2 == CoverageAdjusted(s1, keywords, doc_lower)
             s3 == RAdd(s2, DirectMatchBonus(query_lower, doc_lower))
             s4 == RAdd(s3, PhraseBonus(query_lower, doc_lower, 1))
             s5 == TypeBoosted(s4, query, doc_competition, competition_type)
         IN  LengthAdjusted(s5, doc_lower)

(***************************************************************************)
(* Text processing of SimpleRAG: _split_text, jieba's tagging,             *)
(* _extract_keywords, _detect_competition_type.                            *)
(* Sizes that are 1500 / 400 / 40 / 20 in src/config.py are scaled to the  *)
(* model's short texts.                                                    *)
(***************************************************************************)
RAG_CHUNK_SIZE == 6
RAG_CHUNK_OVERLAP == 10
MAX_KEYWORDS_PER_CHUNK == 2
MAX_KEYWORDS_PER_QUERY == 3

\* a JSON null / Python None where a string is expected, and a value that is
\* neither a string nor null (a number, say)
Null == <<"null">>
NonText == <<"number">>

\* text.strip() == ""
Blank(s) == \A i \in 1..Len(s) : IsSpace(s[i])

\* text.strip()
Strip(s) ==
    IF Blank(s) THEN <<>>
    ELSE LET first == CHOOSE i \in 1..Len(s) :
                          ~IsSpace(s[i]) /\ \A j \in 1..(i - 1) : IsSpace(s[j])
             last == CHOOSE i \in 1..Len(s) :
                          ~IsSpace(s[i]) /\ \A j \in (i + 1)..Len(s) : IsSpace(s[j])
         IN  SubSeq(s, first, last)

\* text.split('\n'): the segments between newlines, empty ones included
RECURSIVE SplitLines(_, _, _)
SplitLines(s, i, cur) ==
    IF i > Len(s) THEN <<cur>>
    ELSE IF s[i] = "\n" THEN <<cur>> \o SplitLines(s, i + 1, <<>>)
         ELSE SplitLines(s, i + 1, Append(cur, s[i]))

\* " ".join(words)
RECURSIVE Join(_)
Join(words) ==
    IF words = <<>> THEN <<>>
    ELSE IF Len(words) = 1 THEN words[1]
         ELSE words[1] \o <<" ">> \o Join(Tail(words))

\* words[k:] for a k <= 0 (a slice counted from the end; words[-0:] is all)
LastWords(words, k) ==
    IF k = 0 \/ -k >= Len(words) THEN words
    ELSE SubSeq(words, Len(words) + k + 1, Len(words))

\* the overlap carried into the next chunk: words[-self.chunk_overlap // 10:]
OverlapText(current_chunk, chunk_overlap) ==
    LET words == Split(current_chunk)
    IN  IF Len(words) > chunk_overlap \div 10
        THEN Join(LastWords(words, (0 - chunk_overlap) \div 10)) \o <<"\n">>
        ELSE <<>>

\* a loop that makes every paragraph a chunk of at most chunk_size characters
CutParagraphs(paragraphs, i, current_chunk, chunks, chunk_size, chunk_overlap) ==
    LET kept == SelectSeq(paragraphs, LAMBDA para : ~Blank(para))
    IN  [n \in 1..Len(kept) |->
            (IF Len(kept[n]) > chunk_size THEN SubSeq(kept[n], 1, chunk_size)
             ELSE kept[n]) \o <<"\n">>]

\* the loop of _split_text over the paragraphs from the i-th on
RECURSIVE SplitParagraphs(_, _, _, _, _, _)
SplitParagraphs(paragraphs, i, current_chunk, chunks, chunk_size, chunk_overlap) ==
    IF i > Len(paragraphs)
    THEN IF current_chunk # <<>> THEN Append(chunks, current_chunk) ELSE chunks
    ELSE LET para == paragraphs[i]
         IN  IF Blank(para)
             THEN SplitParagraphs(paragraphs, i + 1, current_chunk, chunks,
                                  chunk_size, chunk_overlap)
             ELSE IF Len(current_chunk) + Len(para) <= chunk_size
                  THEN SplitParagraphs(paragraphs, i + 1,
                                       current_chunk \o para \o <<"\n">>, chunks,
                                       chunk_size, chunk_overlap)
                  ELSE IF current_chunk # <<>>
                       THEN SplitParagraphs(paragraphs, i + 1,
                                OverlapText(current_chunk, chunk_overlap)
                                    \o para \o <<"\n">>,
                                Append(chunks, current_chunk),
                                chunk_size, chunk_overlap)
                       ELSE SplitParagraphs(paragraphs, i + 1,
                                            para \o <<"\n">>, chunks,
                                            chunk_size, chunk_overlap)

\* self._split_text(text, chunk_size) of an engine with self.chunk_overlap
SplitTextWith(text, chunk_size, chunk_overlap) ==
    SplitParagraphs(SplitLines(text, 1, <<>>), 1, <<>>, <<>>, chunk_size, chunk_overlap)

\* self._split_text(text) as _build_index calls it
SplitText(text) == SplitTextWith(text, RAG_CHUNK_SIZE, RAG_CHUNK_OVERLAP)

\* jieba.posseg.lcut: the runs of non-blank and of blank characters, each
\* with a part-of-speech flag.  Stand-in tagger: a run of blanks or of the
\* punctuation mark "?" is "x", a word made of the letter c only is a
\* particle "u", any other word a noun.
RECURSIVE Runs(_, _, _)
Runs(s, i, cur) ==
    IF i > Len(s) THEN (IF cur = <<>> THEN <<>> ELSE <<cur>>)
    ELSE IF cur # <<>> /\ IsSpace(cur[1]) # IsSpace(s[i])
         THEN <<cur>> \o Runs(s, i + 1, <<s[i]>>)
         ELSE Runs(s, i + 1, Append(cur, s[i]))

PosFlag(word) ==
    IF \A i \in 1..Len(word) : IsSpace(word[i]) \/ word[i] = "?" THEN "x"
    ELSE IF \A i \in 1..Len(word) : word[i] = "c" THEN "u" ELSE "n"

PosCut(text) ==
    LET runs == Runs(text, 1, <<>>)
    IN  [i \in 1..Len(runs) |-> [word |-> runs[i], flag |-> PosFlag(runs[i])]]

allowed_pos == {"n", "v", "a", "nr", "ns", "nt", "nz", "vn", "an", "j", "i", "l",
                "eng", "nrt"}

\* the flags with flag.startswith('n')
noun_pos == {"n", "nr", "ns", "nt", "nz", "nrt"}

\* no stop-word file is configured
stopwords == {}

\* the strict pass over the tagged words (lines 384-390)
RECURSIVE StrictWords(_, _, _)
StrictWords(words_with_pos, i, keywords) ==
    IF i > Len(words_with_pos) THEN keywords
    ELSE LET word == Lower(Strip(words_with_pos[i].word))
         IN  IF /\ words_with_pos[i].flag \in allowed_pos
                /\ word \notin stopwords
                /\ Len(word) > 1
                /\ word \notin SeqToSet(keywords)
             THEN StrictWords(words_with_pos, i + 1, Append(keywords, word))
             ELSE StrictWords(words_with_pos, i + 1, keywords)

\* the relaxed pass for short queries (lines 394-408)
RECURSIVE RelaxedWords(_, _, _, _)
RelaxedWords(words_with_pos, i, keywords, max_count) ==
    IF i > Len(words_with_pos) THEN keywords
    ELSE LET word == Lower(Strip(words_with_pos[i].word))
             flag == words_with_pos[i].flag
         IN  IF word # <<>> /\ word \notin stopwords /\ word \notin SeqToSet(keywords)
             THEN LET added ==
                          IF Len(word) = 1 /\ flag \in noun_pos THEN Append(keywords, word)
                          ELSE IF Len(word) > 1 THEN Append(keywords, word)
                               ELSE keywords
                  IN  IF Len(added) >= max_count THEN added
                      ELSE RelaxedWords(words_with_pos, i + 1, added, max_count)
             ELSE RelaxedWords(words_with_pos, i + 1, keywords, max_count)

\* SimpleRAG._extract_keywords.  term_order is the order in which this
\* process iterates the set competition_terms_set.
ExtractKeywords(text, max_count, for_query, term_order) ==
    IF text = <<>> THEN <<>>
    ELSE LET competition_keywords ==
                 SelectSeq(COMPETITION_TYPES, LAMBDA t : Contains(text, t))
             terms ==
                 SelectSeq(term_order,
                           LAMBDA t : /\ Contains(text, t)
                                      /\ t \notin SeqToSet(competition_keywords)
                                      /\ Len(t) > 1)
             words_with_pos == PosCut(text)
             strict == StrictWords(words_with_pos, 1, competition_keywords \o terms)
             keywords ==
                 IF for_query /\ Len(strict) < 3
                 THEN RelaxedWords(words_with_pos, 1, strict, max_count)
                 ELSE strict
         IN  IF Len(keywords) > max_count THEN SubSeq(keywords, 1, max_count)
             ELSE keywords

\* SimpleRAG._detect_competition_type (<<>> is None)
DetectCompetitionType(text) ==
    LET direct == SelectSeq(COMPETITION_TYPES, LAMBDA t : Contains(text, t))
        \* the (keyword, type) pairs in the order the nested loops meet them
        by_keyword ==
            SelectSeq(COMPETITION_KEYWORDS,
                      LAMBDA k : /\ Contains(text, k)
                                 /\ \E n \in 1..Len(COMPETITION_TYPES) :
                                        Contains(COMPETITION_TYPES[n], k))
    IN  IF direct # <<>> THEN direct[1]
        ELSE IF by_keyword # <<>>
             THEN SelectSeq(COMPETITION_TYPES,
                            LAMBDA t : Contains(t, by_keyword[1]))[1]
             ELSE <<>>

(***************************************************************************)
(* The index of SimpleRAG.  A chunk id "doc_<n>" is the number n.          *)
(*   documents          chunk id -> [content, source, page, competition]   *)
(*   index              keyword -> sequence of chunk ids (posting list)    *)
(*   competition_docs   competition type -> sequence of chunk ids          *)
(* A dict is a function; the empty dict is <<>>.                           *)
(* A PDF file is [name, pages, error_at]: the texts of its pages, and the  *)
(* page at which reading it raises (0: none; 1: fitz.open itself fails).   *)
(***************************************************************************)
Put(dict, key, value) ==
    [k \in DOMAIN dict \cup {key} |-> IF k = key THEN value ELSE dict[k]]

\* self.index[keyword].append(doc_key) for each keyword in turn
RECURSIVE AddPostings(_, _, _)
AddPostings(index, keywords, doc_key) ==
    IF keywords = <<>> THEN index
    ELSE LET keyword == Head(keywords)
             posting == IF keyword \in DOMAIN index THEN index[keyword] ELSE <<>>
         IN  AddPostings(Put(index, keyword, Append(posting, doc_key)),
                         Tail(keywords), doc_key)

EmptyEngine == [index |-> <<>>, documents |-> <<>>, competition_docs |-> <<>>]

\* lines 207-232: one chunk of a page
IndexChunk(b, chunk, file_name, page, competition_type, term_order) ==
    IF Blank(chunk) THEN b
    ELSE LET doc_key == b.doc_id + 1
             keywords == ExtractKeywords(chunk, MAX_KEYWORDS_PER_CHUNK, FALSE,
                                         term_order)
         IN  [doc_id |-> doc_key,
              documents |-> Put(b.documents, doc_key,
                                [content |-> chunk, source |-> file_name,
                                 page |-> page, competition |-> competition_type]),
              index |-> AddPostings(b.index, keywords, doc_key),
              competition_docs |->
                  IF competition_type # <<>>
                  THEN Put(b.competition_docs, competition_type,
                           Append(IF competition_type \in DOMAIN b.competition_docs
                                  THEN b.competition_docs[competition_type]
                                  ELSE <<>>, doc_key))
                  ELSE b.competition_docs]

RECURSIVE IndexChunks(_, _, _, _, _, _)
IndexChunks(b, chunks, file_name, page, competition_type, term_order) ==
    IF chunks = <<>> THEN b
    ELSE IndexChunks(IndexChunk(b, Head(chunks), file_name, page, competition_type,
                                term_order),
                     Tail(chunks), file_name, page, competition_type, term_order)

\* lines 197-232: the pages of one file from page_num on; an exception ends
\* the file and keeps what was indexed before it
RECURSIVE IndexPages(_, _, _, _, _)
IndexPages(b, file, page_num, competition_type, term_order) ==
    IF page_num > Len(file.pages) \/ file.error_at = page_num THEN b
    ELSE LET text == file.pages[page_num]
             after == IF Blank(text) THEN b
                      ELSE IndexChunks(b, SplitText(text), file.name, page_num,
                                       competition_type, term_order)
         IN  IndexPages(after, file, page_num + 1, competition_type, term_order)

\* lines 190-237: one iteration of the loop over the PDF files
IndexFile(b, file, term_order) ==
    IndexPages(b, file, 1, DetectCompetitionType(file.name), term_order)

\* the state of a build after the first n files, from the cleared structures
RECURSIVE BuildFiles(_, _, _)
BuildFiles(files, n, term_order) ==
    IF n = 0 THEN [doc_id |-> 0, index |-> <<>>, documents |-> <<>>,
                   competition_docs |-> <<>>]
    ELSE IndexFile(BuildFiles(files, n - 1, term_order), files[n], term_order)

\* the three structures a build over all the files leaves
BuildAll(files, term_order) ==
    LET b == BuildFiles(files, Len(files), term_order)
    IN  [index |-> b.index, documents |-> b.documents,
         competition_docs |-> b.competition_docs]

\* every chunk id of a posting list is a key of the chunk store
PostingsResolve(index, documents) ==
    \A keyword \in DOMAIN index :
        \A n \in 1..Len(index[keyword]) : index[keyword][n] \in DOMAIN documents

(***************************************************************************)
(* The knowledge bases the engine is built from: two PDF files, the second *)
(* with a chunk that holds more terms than a chunk keeps keywords.         *)
(***************************************************************************)
F1 == [name |-> <<"c", "a">>,
       pages |-> << <<"a", "b", " ", "b", "a", "\n", "c", "a", " ", "a">> >>,
       error_at |-> 0]
F2 == [name |-> <<"x", " ", "b", "b">>,
       pages |-> << <<"c", "a", "b", "a">>, <<"b", " ", "a", "b">> >>,
       error_at |-> 0]
Corpora == {<<F1>>, <<F1, F2>>}

\* the orders in which a process may iterate the set of competition terms
TermOrders ==
    {p \in [1..Len(COMPETITION_TERMS) -> SeqToSet(COMPETITION_TERMS)] :
        \A i, j \in 1..Len(COMPETITION_TERMS) : p[i] = p[j] => i = j}

\* BuildAll, tabulated over the knowledge bases and the iteration orders
Builds == [corpus \in Corpora, order \in TermOrders |-> BuildAll(corpus, order)]

(***************************************************************************)
(* Persistence of SimpleRAG: _index_exists, _save_index, _load_index.      *)
(* disk is [index, documents, competition_docs], each artifact Absent,     *)
(* Corrupt (no parsable JSON) or Stored(data).                             *)
(***************************************************************************)
ArtifactNames == <<"index", "documents", "competition_docs">>
ArtifactPos(name) == CHOOSE n \in 1..Len(ArtifactNames) : ArtifactNames[n] = name

\* SimpleRAG._index_exists
IndexExists(d) == \A a \in SeqToSet(ArtifactNames) : d[a] # [state |-> "absent"]

\* SimpleRAG._save_index: the three files are written one after the other.
\* fail_at = 0: all are written.  fail_at = n: writing the n-th raises; the
\* files before it are written, the n-th is left truncated or untouched, the
\* files after it are untouched, and the exception is logged.
SaveIndex(d, e, fail_at, truncated) ==
    [a \in SeqToSet(ArtifactNames) |->
        IF fail_at = 0 \/ ArtifactPos(a) < fail_at
        THEN [state |-> "ok", data |-> e[a]]
        ELSE IF ArtifactPos(a) = fail_at /\ truncated THEN [state |-> "corrupt"]
             ELSE d[a]]

\* the try block of SimpleRAG._load_index on an engine e: the artifacts are
\* assigned one after the other until one cannot be read
LoadIndex(d, e) ==
    IF d.index.state # "ok" THEN [failed |-> TRUE, engine |-> e]
    ELSE IF d.documents.state # "ok"
         THEN [failed |-> TRUE, engine |-> [e EXCEPT !.index = d.index.data]]
         ELSE IF d.competition_docs.state # "ok"
              THEN [failed |-> TRUE,
                    engine |-> [e EXCEPT !.index = d.index.data,
                                         !.documents = d.documents.data]]
              ELSE [failed |-> FALSE,
                    engine |-> [index |-> d.index.data,
                                documents |-> d.documents.data,
                                competition_docs |-> d.competition_docs.data]]

\* SimpleRAG._build_index on an engine e, up to the save: without the
\* knowledge base path it returns before touching anything
BuildIndex(e, path, pdf_files, order) ==
    IF ~path THEN e ELSE Builds[pdf_files, order]

\* lines 150-154 of SimpleRAG.__init__: what the constructor leaves in memory
\* and whether it built (and so saved) or loaded
Constructed(rebuild_index, d, path, pdf_files, order) ==
    LET load == ~rebuild_index /\ IndexExists(d)
        loaded == LoadIndex(d, EmptyEngine)
        builds == ~load \/ loaded.failed
        before == IF load THEN loaded.engine ELSE EmptyEngine
    IN  [load_failed |-> load /\ loaded.failed,
         built |-> builds /\ path,
         engine |-> IF builds THEN BuildIndex(before, path, pdf_files, order)
                    ELSE before]

(***************************************************************************)
(* SimpleRAG.search.  e is the engine [index, documents, competition_docs].*)
(* A scored chunk is [doc_id, score]; a result is the chunk's record with  *)
(* a score and the fallback mark (chunk is the id it was copied from: the  *)
(* code's results carry no "id" key).                                      *)
(* CHOOSE v \in {F(x) : x \in {E}} : TRUE is F(E) with E evaluated once.    *)
(***************************************************************************)
SAME_TYPE_BOOST == Frac(3, 2)
MIN_SCORE == Frac(1, 100)

\* a slice that cuts nothing off
TakeAll(seq, n) == seq

\* s[:n]
Take(seq, n) ==
    IF n >= Len(seq) THEN seq
    ELSE IF n >= 0 THEN SubSeq(seq, 1, n)
         ELSE SubSeq(seq, 1, IF Len(seq) + n > 0 THEN Len(seq) + n ELSE 0)

\* the keywords search works with (lines 471-476)
QueryKeywords(query, term_order) ==
    LET keywords == ExtractKeywords(query, MAX_KEYWORDS_PER_QUERY, TRUE, term_order)
    IN  IF keywords = <<>> THEN Split(query) ELSE keywords

\* the competition type search works with (lines 481-486)
QueryCompetitionType(query, competition_type) ==
    IF competition_type = <<>> THEN DetectCompetitionType(query) ELSE competition_type

\* self.documents.get(doc_id) is a non-empty record
HasDoc(e, doc_id) == doc_id \in DOMAIN e.documents

Scored(doc_scores) == {doc_scores[n].doc_id : n \in 1..Len(doc_scores)}

\* lines 502-518: the chunks of the competition type, boosted
RECURSIVE ScoreCompetitionDocs(_, _, _, _, _, _)
ScoreCompetitionDocs(e, comp_docs, query, keywords, competition_type, doc_scores) ==
    IF comp_docs = <<>> THEN doc_scores
    ELSE LET doc_id == Head(comp_docs)
             rest == Tail(comp_docs)
         IN  IF doc_id \in Scored(doc_scores) \/ ~HasDoc(e, doc_id)
             THEN ScoreCompetitionDocs(e, rest, query, keywords, competition_type,
                                       doc_scores)
             ELSE LET doc == e.documents[doc_id]
                      score == RMul(CalculateScore(query, doc.content, keywords,
                                                   doc.competition, competition_type),
                                    COMPETITION_TYPE_BOOST_FACTOR)
                  IN  CHOOSE scores \in
                          {ScoreCompetitionDocs(e, rest, query, keywords,
                                                competition_type, scored) :
                              scored \in {Append(doc_scores, [doc_id |-> doc_id,
                                                              score |-> score])}} : TRUE

\* lines 524-542: the posting list of one keyword
RECURSIVE ScorePosting(_, _, _, _, _, _)
ScorePosting(e, matching_docs, query, keywords, competition_type, doc_scores) ==
    IF matching_docs = <<>> THEN doc_scores
    ELSE LET doc_id == Head(matching_docs)
             rest == Tail(matching_docs)
         IN  IF doc_id \in Scored(doc_scores) \/ ~HasDoc(e, doc_id)
             THEN ScorePosting(e, rest, query, keywords, competition_type, doc_scores)
             ELSE LET doc == e.documents[doc_id]
                      base == CalculateScore(query, doc.content, keywords,
                                             doc.competition, competition_type)
                      score == IF /\ doc.competition # <<>>
                                  /\ competition_type # <<>>
                                  /\ doc.competition = competition_type
                               THEN RMul(base, SAME_TYPE_BOOST) ELSE base
                  IN  CHOOSE scores \in
                          {ScorePosting(e, rest, query, keywords, competition_type,
                                        scored) :
                              scored \in {Append(doc_scores, [doc_id |-> doc_id,
                                                              score |-> score])}} : TRUE

\* lines 521-542: the posting lists of the keywords from the i-th on
RECURSIVE ScoreKeywords(_, _, _, _, _, _)
ScoreKeywords(e, i, query, keywords, competition_type, doc_scores) ==
    IF i > Len(keywords) THEN doc_scores
    ELSE CHOOSE scores \in
             {ScoreKeywords(e, i + 1, query, keywords, competition_type, scored) :
                 scored \in {IF keywords[i] \in DOMAIN e.index
                             THEN ScorePosting(e, e.index[keywords[i]], query,
                                               keywords, competition_type, doc_scores)
                             ELSE doc_scores}} : TRUE

\* doc_scores, in the order the chunks were scored
DocScores(e, query, keywords, competition_type) ==
    LET comp_docs == IF /\ competition_type # <<>>
                        /\ competition_type \in DOMAIN e.competition_docs
                     THEN e.competition_docs[competition_type] ELSE <<>>
    IN  CHOOSE scores \in
            {ScoreKeywords(e, 1, query, keywords, competition_type, scored) :
                scored \in {ScoreCompetitionDocs(e, comp_docs, query, keywords,
                                                 competition_type, <<>>)}} : TRUE

\* sorted(..., key=score, reverse=True): stable, equal scores keep their order
RECURSIVE InsertByScore(_, _)
InsertByScore(sorted, x) ==
    IF sorted = <<>> THEN <<x>>
    ELSE IF RLt(Head(sorted).score, x.score) THEN <<x>> \o sorted
         ELSE <<Head(sorted)>> \o InsertByScore(Tail(sorted), x)

RECURSIVE SortByScore(_)
SortByScore(items) ==
    IF items = <<>> THEN <<>>
    ELSE InsertByScore(SortByScore(SubSeq(items, 1, Len(items) - 1)),
                       items[Len(items)])

\* self.documents.get(doc_id).copy() with doc["score"] = score
ResultOf(e, doc_id, score, is_fallback) ==
    [chunk |-> doc_id,
     content |-> e.documents[doc_id].content,
     source |-> e.documents[doc_id].source,
     page |-> e.documents[doc_id].page,
     competition |-> e.documents[doc_id].competition,
     score |-> score,
     is_fallback |-> is_fallback]

\* d.get("id") of a result: None, as the records carry no "id" key.  None is
\* 0 here, which is no chunk id ("doc_<n>" has n >= 1).
GetId(d) == 0

\* lines 549-554
AboveThreshold(e, sorted_docs, score_threshold) ==
    LET kept == SelectSeq(sorted_docs, LAMBDA x : RLe(score_threshold, x.score))
    IN  [n \in 1..Len(kept) |-> ResultOf(e, kept[n].doc_id, kept[n].score, FALSE)]

\* a relaxed pass that takes every scored chunk, whatever its score
UnfilteredResults(e, sorted_docs, i, relaxed_threshold, above_threshold, top_n, relaxed_results) ==
    [n \in 1..Len(sorted_docs) |->
        ResultOf(e, sorted_docs[n].doc_id, sorted_docs[n].score, FALSE)]

\* lines 566-572: the relaxed pass over sorted_docs from the i-th on
RECURSIVE RelaxedResults(_, _, _, _, _, _, _)
RelaxedResults(e, sorted_docs, i, relaxed_threshold, above_threshold, top_n, relaxed_results) ==
    IF i > Len(sorted_docs) THEN relaxed_results
    ELSE IF /\ RLe(relaxed_threshold, sorted_docs[i].score)
            /\ sorted_docs[i].doc_id
                   \notin {GetId(above_threshold[n]) : n \in 1..Len(above_threshold)}
         THEN LET added == Append(relaxed_results,
                                  ResultOf(e, sorted_docs[i].doc_id,
                                           sorted_docs[i].score, FALSE))
              IN  IF Len(above_threshold) + Len(added) >= top_n THEN added
                  ELSE RelaxedResults(e, sorted_docs, i + 1, relaxed_threshold,
                                      above_threshold, top_n, added)
         ELSE RelaxedResults(e, sorted_docs, i + 1, relaxed_threshold,
                             above_threshold, top_n, relaxed_results)

\* lines 584-590: filling up with the remaining chunks
RECURSIVE FillUp(_, _, _, _, _, _)
FillUp(e, sorted_docs, i, existing_doc_ids, top_n, results) ==
    IF i > Len(sorted_docs) THEN results
    ELSE IF sorted_docs[i].doc_id \notin existing_doc_ids
         THEN LET added == Append(results,
                                  ResultOf(e, sorted_docs[i].doc_id,
                                           RMax(sorted_docs[i].score, MIN_SCORE),
                                           FALSE))
              IN  IF Len(added) >= top_n THEN added
                  ELSE FillUp(e, sorted_docs, i + 1, existing_doc_ids, top_n, added)
         ELSE FillUp(e, sorted_docs, i + 1, existing_doc_ids, top_n, results)

\* lines 549-604 on the sorted scores and the chunks of the first pass
Selected(e, sorted_docs, above_threshold, top_n, score_threshold) ==
    LET short == Len(above_threshold) < top_n
        relaxed_results ==
            IF short
            THEN RelaxedResults(e, sorted_docs, 1, RMul(score_threshold, Frac(1, 2)),
                                above_threshold, top_n, <<>>)
            ELSE <<>>
        two_pass == above_threshold \o relaxed_results
        collected ==
            IF short
            THEN IF Len(two_pass) < top_n /\ Len(sorted_docs) > Len(two_pass)
                 THEN FillUp(e, sorted_docs, 1,
                             {GetId(two_pass[n]) : n \in 1..Len(two_pass)},
                             top_n, two_pass)
                 ELSE two_pass
            ELSE Take(above_threshold, top_n)
    IN  [relaxed |-> short,
         above_threshold |-> above_threshold,
         relaxed_results |-> relaxed_results,
         results |-> Take(SortByScore(collected), top_n)]

\* lines 546-604: the selection, with the lists of its passes
Selection(e, doc_scores, top_n, score_threshold) ==
    CHOOSE selection \in
        {Selected(e, sorted_docs,
                  AboveThreshold(e, sorted_docs, score_threshold),
                  top_n, score_threshold) :
            sorted_docs \in {SortByScore(doc_scores)}} : TRUE

\* random picks handed back like ordinary results, without the mark
FallbackUnmarked(e, picks) ==
    [n \in 1..Len(picks) |-> ResultOf(e, picks[n], MIN_SCORE, FALSE)]

\* lines 607-617: the chunks picked at random when nothing was selected
FallbackResults(e, picks) ==
    [n \in 1..Len(picks) |-> ResultOf(e, picks[n], MIN_SCORE, TRUE)]

\* the number of random picks search makes
FallbackCount(e, top_n) ==
    IF top_n < Cardinality(DOMAIN e.documents)
    THEN (IF top_n > 0 THEN top_n ELSE 0)
    ELSE Cardinality(DOMAIN e.documents)

\* an exception is raised inside the try block: the query is not a string
\* (query.split() or `in` fails), or the content of a chunk that gets scored is
\* not a string (doc_text.lower() fails)
SearchFails(e, query, competition_type, term_order) ==
    \/ query = Null
    \/ LET keywords == QueryKeywords(query, term_order)
           ct == QueryCompetitionType(query, competition_type)
           reached == (IF ct # <<>> /\ ct \in DOMAIN e.competition_docs
                       THEN SeqToSet(e.competition_docs[ct]) ELSE {})
                      \cup UNION {SeqToSet(e.index[keywords[n]]) :
                                     n \in {m \in 1..Len(keywords) :
                                               keywords[m] \in DOMAIN e.index}}
       IN  \E doc_id \in reached :
               HasDoc(e, doc_id) /\ e.documents[doc_id].content = NonText

\* what the try block computes when nothing raises
SearchBody(e, query, competition_type, top_n, score_threshold, term_order, picks) ==
    CHOOSE out \in
        {[raised |-> FALSE, error |-> FALSE,
          relaxed |-> sel.relaxed,
          above_threshold |-> sel.above_threshold,
          relaxed_results |-> sel.relaxed_results,
          results |-> IF sel.results = <<>> THEN FallbackResults(e, picks)
                      ELSE sel.results] :
            sel \in {Selection(e, DocScores(e, query, keywords, ct), top_n,
                               score_threshold) :
                        keywords \in {QueryKeywords(query, term_order)},
                        ct \in {QueryCompetitionType(query, competition_type)}}} : TRUE

\* an exception that leaves search
Propagated ==
    [raised |-> TRUE, error |-> TRUE, relaxed |-> FALSE, above_threshold |-> <<>>,
     relaxed_results |-> <<>>, results |-> <<>>]

\* lines 627-633: except Exception: return []
Caught ==
    [raised |-> FALSE, error |-> TRUE, relaxed |-> FALSE, above_threshold |-> <<>>,
     relaxed_results |-> <<>>, results |-> <<>>]

\* results that are the stored records themselves: the writes reach the store
StoreAliased(e, results) ==
    [k \in DOMAIN e.documents |->
        IF \E n \in 1..Len(results) : results[n].chunk = k
        THEN LET r == CHOOSE r \in SeqToSet(results) : r.chunk = k
             IN  [field \in DOMAIN e.documents[k] \cup {"score"} |->
                     IF field = "score" THEN r.score ELSE e.documents[k][field]]
        ELSE e.documents[k]]

\* every result of search is a .copy() of the stored record (lines 552, 568, 586,
\* 614) and the score and the mark are written to the copy: the chunk store
\* keeps its records
StoreAfter(e, results) == e.documents

\* SimpleRAG.search
Search(e, query, competition_type, top_n, score_threshold, term_order, picks) ==
    IF SearchFails(e, query, competition_type, term_order) THEN Caught
    ELSE SearchBody(e, query, competition_type, top_n, score_threshold, term_order,
                    picks)

(***************************************************************************)
(* SimpleRAG.search_with_filter.  The chunks to score are held in a Python *)
(* set, so the order in which equal scores come out is any order.  A       *)
(* result is a new dict [content, source, competition_type, score, id].    *)
(***************************************************************************)
\* the orders in which a set may be iterated
Orders(S) ==
    {p \in [1..Cardinality(S) -> S] : \A i, j \in 1..Cardinality(S) : p[i] = p[j] => i = j}

\* lines 846-859: the chunks of the keywords' posting lists, cut down to the
\* chunks of the competition type when the competition index knows the type
FilteredDocIds(e, keywords, filter_by_comp_type) ==
    LET doc_ids == UNION {SeqToSet(e.index[keywords[n]]) :
                             n \in {m \in 1..Len(keywords) : keywords[m] \in DOMAIN e.index}}
    IN  IF filter_by_comp_type # <<>> /\ filter_by_comp_type \in DOMAIN e.competition_docs
        THEN doc_ids \cap SeqToSet(e.competition_docs[filter_by_comp_type])
        ELSE doc_ids

\* lines 866-887: the result dicts of the chunks that reach the threshold
FilteredResults(e, ids, query, keywords, filter_by_comp_type, score_threshold) ==
    {r \in {[id |-> doc_id,
             content |-> e.documents[doc_id].content,
             source |-> e.documents[doc_id].source,
             competition_type |-> e.documents[doc_id].competition,
             score |-> CalculateScore(query, e.documents[doc_id].content, keywords,
                                      e.documents[doc_id].competition,
                                      filter_by_comp_type)] :
                doc_id \in {d \in ids : HasDoc(e, d)}} :
        RLe(score_threshold, r.score)}

\* SimpleRAG.search_with_filter: the result lists it may return (lines 890-893
\* on each order in which the results may have been appended).  An exception
\* (the query is no string, a scored chunk's content is no string) is caught
\* and gives the empty list, as does a query without keywords.
SearchWithFilter(e, query, filter_by_comp_type, score_threshold, max_results, term_order) ==
    IF query = Null THEN {<<>>}
    ELSE UNION {
        IF keywords = <<>> THEN {<<>>}
        ELSE UNION {
            IF \E doc_id \in ids : HasDoc(e, doc_id) /\ e.documents[doc_id].content = NonText
            THEN {<<>>}
            ELSE UNION {{Take(SortByScore(order), max_results) : order \in Orders(results)} :
                           results \in {FilteredResults(e, ids, query, keywords,
                                                        filter_by_comp_type,
                                                        score_threshold)}} :
            ids \in {FilteredDocIds(e, keywords, filter_by_comp_type)}} :
        keywords \in {ExtractKeywords(query, MAX_KEYWORDS_PER_QUERY, TRUE, term_order)}}

(***************************************************************************)
(* StructuredCompetitionKB (src/structured_kb.py).  The knowledge base kb  *)
(* is a dict competition type -> (information type -> answer); it is a     *)
(* sequence of [competition_type, info] here because the code iterates it  *)
(* in insertion order.  Stand-ins for the Chinese tables:                  *)
(*   competition names "ca", "bbc"; aliases "ac" -> "ca", "bb" -> "bbc"    *)
(*   information types "T" (keywords "ti", "tim") and "G" (keyword "gr")   *)
(*   jieba.cut of a name: "ca" -> ["ca"], "bbc" -> ["b", "bc"]             *)
(***************************************************************************)
competition_aliases ==
    << [alias |-> <<"a", "c">>, comp_type |-> <<"c", "a">>],
       [alias |-> <<"b", "b">>, comp_type |-> <<"b", "b", "c">>] >>

info_types ==
    << [info_type |-> <<"T">>, keywords |-> << <<"t", "i">>, <<"t", "i", "m">> >>],
       [info_type |-> <<"G">>, keywords |-> << <<"g", "r">> >>] >>

JiebaCut(comp_type) ==
    IF comp_type = <<"b", "b", "c">> THEN << <<"b">>, <<"b", "c">> >> ELSE <<comp_type>>

KbTypes(k) == {k[i].competition_type : i \in 1..Len(k)}
KbInfo(k, comp_type) ==
    (CHOOSE e \in SeqToSet(k) : e.competition_type = comp_type).info

\* the position of the first store entry whose name occurs in the question,
\* 0 when there is none
RECURSIVE FirstNamed(_, _, _)
FirstNamed(k, question, i) ==
    IF i > Len(k) THEN 0
    ELSE IF Contains(question, k[i].competition_type) THEN i
         ELSE FirstNamed(k, question, i + 1)

\* the position of the first alias that occurs in the question and whose
\* competition is in the store, 0 when there is none
RECURSIVE FirstAlias(_, _, _)
FirstAlias(k, question, i) ==
    IF i > Len(competition_aliases) THEN 0
    ELSE IF /\ Contains(question, competition_aliases[i].alias)
            /\ competition_aliases[i].comp_type \in KbTypes(k)
         THEN i
         ELSE FirstAlias(k, question, i + 1)

\* _load_competition_keywords: the words of a name longer than one character
CompetitionKeywordsOf(comp_type) ==
    SelectSeq(JiebaCut(comp_type), LAMBDA w : Len(w) > 1)

\* the (type, keyword length) pairs appended by the nested loops of
\* get_competition_type / get_info_type, in the order they are appended
RECURSIVE KeywordMatchesOf(_, _, _)
KeywordMatchesOf(name, keywords, question) ==
    IF keywords = <<>> THEN <<>>
    ELSE (IF Contains(question, Head(keywords))
          THEN << [type |-> name, len |-> Len(Head(keywords))] >> ELSE <<>>)
         \o KeywordMatchesOf(name, Tail(keywords), question)

\* matches.sort(key=len, reverse=True)[0][0]: the first pair of greatest length
\* (the sort is stable)
BestMatch(matches) ==
    IF matches = <<>> THEN <<>>
    ELSE LET best == CHOOSE i \in 1..Len(matches) :
                        /\ \A j \in 1..Len(matches) : matches[j].len <= matches[i].len
                        /\ \A j \in 1..(i - 1) : matches[j].len < matches[i].len
         IN  matches[best].type

RECURSIVE CompetitionMatches(_, _, _)
CompetitionMatches(k, question, i) ==
    IF i > Len(k) THEN <<>>
    ELSE KeywordMatchesOf(k[i].competition_type,
                          CompetitionKeywordsOf(k[i].competition_type), question)
         \o CompetitionMatches(k, question, i + 1)

\* StructuredCompetitionKB.get_competition_type
GetCompetitionType(k, question) ==
    LET direct == FirstNamed(k, question, 1)
        alias == FirstAlias(k, question, 1)
    IN  IF direct # 0 THEN k[direct].competition_type
        ELSE IF alias # 0 THEN competition_aliases[alias].comp_type
             ELSE BestMatch(CompetitionMatches(k, question, 1))

RECURSIVE InfoMatches(_, _)
InfoMatches(question, i) ==
    IF i > Len(info_types) THEN <<>>
    ELSE KeywordMatchesOf(info_types[i].info_type, info_types[i].keywords, question)
         \o InfoMatches(question, i + 1)

\* StructuredCompetitionKB.get_info_type
GetInfoType(question) == BestMatch(InfoMatches(question, 1))

NoneResult == [none |-> TRUE]

\* a lookup that answers from the competition's first record, whatever the
\* information type asked for
KbQueryAnyInfo(k, competition_type, info_type) ==
    IF competition_type \in KbTypes(k) /\ DOMAIN KbInfo(k, competition_type) # {}
    THEN LET first == CHOOSE i \in DOMAIN KbInfo(k, competition_type) : TRUE
         IN  [answer |-> KbInfo(k, competition_type)[first],
              confidence |-> ROne,
              source |-> competition_type \o <<"-">> \o info_type,
              competition_type |-> competition_type,
              info_type |-> info_type]
    ELSE NoneResult

\* StructuredCompetitionKB.query
KbQuery(k, competition_type, info_type) ==
    IF competition_type = <<>> \/ info_type = <<>> THEN NoneResult
    ELSE IF /\ competition_type \in KbTypes(k)
            /\ info_type \in DOMAIN KbInfo(k, competition_type)
         THEN [answer |-> KbInfo(k, competition_type)[info_type],
               confidence |-> ROne,
               source |-> competition_type \o <<"-">> \o info_type,
               competition_type |-> competition_type,
               info_type |-> info_type]
         ELSE NoneResult

(***************************************************************************)
(* QueryRouter (src/query_router.py).  A pattern r".*x.*y" of              *)
(* _build_patterns is the pair <<x, y>>: re.match succeeds when x occurs   *)
(* and y occurs after it.  Stand-in: "T" has the pattern ".*w.*t".         *)
(***************************************************************************)
pattern_recognizer ==
    << [type_name |-> <<"T">>, patterns |-> << << <<"w">>, <<"t">> >> >>] >>

ReMatch(pattern, question) ==
    \E i \in 1..Len(question), j \in 1..Len(question) :
        /\ OccursAt(question, pattern[1], i)
        /\ i + Len(pattern[1]) <= j
        /\ OccursAt(question, pattern[2], j)

\* the position of the first information type one of whose patterns matches,
\* 0 when there is none
RECURSIVE FirstPattern(_, _)
FirstPattern(question, i) ==
    IF i > Len(pattern_recognizer) THEN 0
    ELSE IF \E n \in 1..Len(pattern_recognizer[i].patterns) :
                ReMatch(pattern_recognizer[i].patterns[n], question)
         THEN i
         ELSE FirstPattern(question, i + 1)

\* QueryRouter.classify_question
ClassifyQuestion(k, question) ==
    LET structured == GetInfoType(question)
        byPattern == FirstPattern(question, 1)
    IN  [competition_type |-> GetCompetitionType(k, question),
         info_type |-> IF structured # <<>> THEN structured
                       ELSE IF byPattern # 0 THEN pattern_recognizer[byPattern].type_name
                            ELSE <<>>]

\* a floor no structured result exceeds
FloorOfOne == ROne

\* the confidence a structured result must exceed to be returned
StructuredConfidenceFloor == Frac(7, 10)

\* QueryRouter.route_query: the engines called, in order, and the result.
\* `semantic` is what semantic_rag.query returns when it is awaited.
\* (The process_time the code stores in the result is left out.)
\* a normalisation that gives every result of the semantic path confidence 0.5
MiddleConfidence(semantic) ==
    [answer |-> IF semantic.kind = "dict" /\ ~semantic.has_answer THEN semantic.response
                ELSE semantic.answer,
     confidence |-> Frac(1, 2)]

NormalizeSemantic(semantic) ==
    IF semantic.kind = "dict"
    THEN [answer |-> IF semantic.has_answer THEN semantic.answer
                     ELSE semantic.response,
          confidence |-> semantic.confidence]
    ELSE IF semantic.kind = "tuple"
         THEN [answer |-> semantic.answer, confidence |-> semantic.confidence]
         ELSE [answer |-> semantic.answer, confidence |-> Frac(1, 2)]

RouteQueryOf(k, question, semantic) ==
    LET c == ClassifyQuestion(k, question)
        tried == c.competition_type # <<>> /\ c.info_type # <<>>
        result == IF tried THEN KbQuery(k, c.competition_type, c.info_type)
                  ELSE NoneResult
        accepted == /\ tried
                    /\ result # NoneResult
                    /\ RLt(StructuredConfidenceFloor, result.confidence)
        sem == NormalizeSemantic(semantic)
    IN  [pc |-> "done", question |-> question,
         competition_type |-> c.competition_type, info_type |-> c.info_type,
         calls |-> (IF tried THEN <<"structured">> ELSE <<>>)
                   \o (IF accepted THEN <<>> ELSE <<"semantic">>),
         answer |-> IF accepted THEN result.answer ELSE sem.answer,
         confidence |-> IF accepted THEN result.confidence ELSE sem.confidence,
         from |-> IF accepted THEN "structured" ELSE "semantic",
         semantic |-> IF accepted THEN [kind |-> "none"] ELSE semantic]

(***************************************************************************)
(* KnowledgeService (src/knowledge_service.py).  A file of a knowledge     *)
(* base is [title, content, readable]; content is what _read_document      *)
(* returns when the file can be read.  A key "doc_<n>" or "para_<n>" is    *)
(* the number n, a dict is a function and the empty dict is <<>>.          *)
(*   documents    doc key -> [path, title, paragraphs]                     *)
(*   paragraphs   paragraph key -> [doc_id, text, terms]                   *)
(*   index        term -> sequence of <<paragraph key, tf>>                *)
(*   idf_values   term -> [total_docs, doc_count], the arguments of        *)
(*                math.log(total_docs / (1 + doc_count))                   *)
(***************************************************************************)
\* the stop words of _tokenize are single characters; "x" stands for them
stop_words == {<<"x">>}

\* re.sub(r'[^\w\s\u4e00-\u9fff]', ' ', text)
Unpunctuated(text) == [i \in 1..Len(text) |-> IF text[i] = "?" THEN " " ELSE text[i]]

\* KnowledgeService._tokenize
Tokenize(text) ==
    SelectSeq(Split(Unpunctuated(text)), LAMBDA w : w \notin stop_words /\ Len(w) > 1)

\* the loop of KnowledgeService._split_paragraphs over the lines
RECURSIVE MergeLines(_, _, _)
MergeLines(lines, i, current_paragraph) ==
    IF i > Len(lines)
    THEN (IF current_paragraph # <<>> THEN <<current_paragraph>> ELSE <<>>)
    ELSE IF Strip(lines[i]) = <<>>
         THEN (IF current_paragraph # <<>> THEN <<current_paragraph>> ELSE <<>>)
              \o MergeLines(lines, i + 1, <<>>)
         ELSE MergeLines(lines, i + 1,
                         IF current_paragraph # <<>>
                         THEN current_paragraph \o <<" ">> \o Strip(lines[i])
                         ELSE Strip(lines[i]))

\* KnowledgeService._split_paragraphs
KnowledgeParagraphs(text) == MergeLines(SplitLines(text, 1, <<>>), 1, <<>>)

\* KnowledgeService._read_document: the text, or "" when reading fails
ReadDocument(file) == IF file.readable THEN file.content ELSE <<>>

\* term_freq of a paragraph once all its terms are counted
TermFreq(terms) ==
    [t \in SeqToSet(terms) |-> Cardinality({i \in 1..Len(terms) : terms[i] = t})]

\* lines 153-161: the terms of a paragraph enter the inverted index; a
\* posting is appended only when the term's list has none of this paragraph
RECURSIVE AddTerms(_, _, _, _)
AddTerms(index, terms, i, para_key) ==
    IF i > Len(terms) THEN index
    ELSE LET posting == IF terms[i] \in DOMAIN index THEN index[terms[i]] ELSE <<>>
             tf == Cardinality({j \in 1..i : terms[j] = terms[i]})
         IN  AddTerms(Put(index, terms[i],
                          IF \E n \in 1..Len(posting) : posting[n][1] = para_key
                          THEN posting ELSE Append(posting, <<para_key, tf>>)),
                      terms, i + 1, para_key)

\* lines 137-164: one paragraph of the document doc_key
IndexParagraph(b, doc_key, para_text) ==
    IF Len(Strip(para_text)) < 10 THEN b
    ELSE [doc_id |-> b.doc_id,
          paragraph_id |-> b.paragraph_id + 1,
          documents |->
              Put(b.documents, doc_key,
                  [b.documents[doc_key] EXCEPT
                      !.paragraphs = Append(@, b.paragraph_id + 1)]),
          paragraphs |->
              Put(b.paragraphs, b.paragraph_id + 1,
                  [doc_id |-> doc_key, text |-> para_text,
                   terms |-> TermFreq(Tokenize(para_text))]),
          index |-> AddTerms(b.index, Tokenize(para_text), 1, b.paragraph_id + 1),
          doc_terms |-> b.doc_terms \cup SeqToSet(Tokenize(para_text)),
          term_document_count |-> b.term_document_count]

RECURSIVE IndexParagraphs(_, _, _, _)
IndexParagraphs(b, doc_key, paragraphs, n) ==
    IF n = 0 THEN b
    ELSE CHOOSE r \in {IndexParagraph(prev, doc_key, paragraphs[n]) :
                          prev \in {IndexParagraphs(b, doc_key, paragraphs, n - 1)}} : TRUE

\* lines 167-168: the terms of the document are counted
CountTerms(b) ==
    [b EXCEPT !.term_document_count =
        [t \in DOMAIN b.term_document_count \cup b.doc_terms |->
            IF t \in DOMAIN b.term_document_count
            THEN b.term_document_count[t] + (IF t \in b.doc_terms THEN 1 ELSE 0)
            ELSE 1]]

\* lines 117-168: one file of the knowledge base at `location`; a file
\* without content leaves its document record and nothing else (continue)
IndexDocument(b, file, location) ==
    IF ReadDocument(file) = <<>>
    THEN [b EXCEPT !.doc_id = b.doc_id + 1,
                   !.documents = Put(@, b.doc_id + 1,
                                     [path |-> <<location, file.title>>,
                                      title |-> file.title, paragraphs |-> <<>>])]
    ELSE CHOOSE r \in
             {CountTerms(filled) :
                 filled \in {IndexParagraphs(
                     [b EXCEPT !.doc_id = b.doc_id + 1,
                               !.documents = Put(@, b.doc_id + 1,
                                                 [path |-> <<location, file.title>>,
                                                  title |-> file.title,
                                                  paragraphs |-> <<>>]),
                               !.doc_terms = {}],
                     b.doc_id + 1, KnowledgeParagraphs(ReadDocument(file)),
                     Len(KnowledgeParagraphs(ReadDocument(file))))}} : TRUE

RECURSIVE IndexDocuments(_, _, _, _)
IndexDocuments(b, corpus, location, n) ==
    IF n = 0 THEN b
    ELSE CHOOSE r \in {IndexDocument(prev, corpus[n], location) :
                          prev \in {IndexDocuments(b, corpus, location, n - 1)}} : TRUE

\* the structures of a KnowledgeService before any index is made (lines 31-34)
EmptyKnowledge == [documents |-> <<>>, paragraphs |-> <<>>, index |-> <<>>,
                   idf_values |-> <<>>]

\* KnowledgeService._create_index on an instance that holds the structures s,
\* over the directory tree `base` (location -> files in the order glob
\* yields them; a location that does not exist is no key of it)
CreateIndex(s, location, base) ==
    IF location \notin DOMAIN base THEN s
    ELSE CHOOSE r \in
             {[documents |-> b.documents, paragraphs |-> b.paragraphs,
               index |-> b.index,
               idf_values |->
                   [t \in DOMAIN b.term_document_count |->
                       [total_docs |->
                            IF b.documents = <<>> THEN 1
                            ELSE Cardinality(DOMAIN b.documents),
                        doc_count |-> b.term_document_count[t]]]] :
                 b \in {IndexDocuments(
                           [doc_id |-> 0, paragraph_id |-> 0,
                            documents |-> s.documents, paragraphs |-> s.paragraphs,
                            index |-> s.index, doc_terms |-> {},
                            term_document_count |-> <<>>],
                           base[location], location, Len(base[location]))}} : TRUE

\* the four artifacts of KnowledgeService._save_index, in the order written
KnowledgeArtifacts == <<"index", "documents", "paragraphs", "idf_values">>
KnowledgeArtifactPos(name) ==
    CHOOSE n \in 1..Len(KnowledgeArtifacts) : KnowledgeArtifacts[n] = name

(***************************************************************************)
(* State.                                                                  *)
(*   scoreCall   one call of SimpleRAG._calculate_score: its arguments,    *)
(*               its position and the value it returned                    *)
(*   kb          StructuredCompetitionKB.kb                                *)
(*   kbCall      the call of StructuredCompetitionKB.query whose result    *)
(*               the caller holds                                          *)
(*   routeCall   the call of QueryRouter.route_query whose result the      *)
(*               caller holds                                              *)
(*   index, documents, competition_docs                                    *)
(*               the three structures of the serving SimpleRAG             *)
(*   term_order  the order in which the serving process iterates the set   *)
(*               of competition terms (fixed by the process's hash seed)   *)
(*   searchCall  the call of SimpleRAG.search whose result the caller      *)
(*               holds                                                     *)
(*   path_exists whether knowledge_base_path exists                        *)
(*   files       the PDF files under it, in os.walk order                  *)
(*   disk        index.json, documents.json, competition_docs.json         *)
(*   events      how many changes the environment has made                 *)
(*   build       the rebuild_index call in progress on the serving engine  *)
(*   observed    what a query read from the engine during that rebuild     *)
(*   last        the last construction, rebuild or rebuild request         *)
(*   built, prev the inputs and results of the last two complete builds    *)
(*   ks          the KnowledgeService instance: knowledge_base_path and    *)
(*               its four structures                                       *)
(*   knowledge_dir  the files KnowledgeService works on: the directories   *)
(*               of documents (base), data/knowledge/*.json (json) and     *)
(*               data/knowledge/backup (backup)                            *)
(*   ksCall      the last call of KnowledgeService                         *)
(*   adapterCall the call of RAGAdapter or of SimpleRAG.rebuild_index      *)
(*               whose result the caller holds                             *)
(*   splitCall   the call of SimpleRAG._split_text whose result the caller *)
(*               holds                                                     *)
(*   askCall     the request POST /api/ask being processed, with the timer *)
(*               of its asyncio.wait_for                                   *)
(***************************************************************************)
VARIABLES scoreCall, kb, kbCall, routeCall,
          index, documents, competition_docs, term_order, searchCall,
          path_exists, files, disk, events, build, observed, last, built, prev,
          ks, knowledge_dir, ksCall, adapterCall, splitCall, askCall

scoreVars == <<scoreCall>>
routerVars == <<kb, kbCall, routeCall>>
engineVars == <<index, documents, competition_docs, term_order>>
searchVars == <<searchCall>>
envVars == <<path_exists, files, disk, events>>
lifeVars == <<build, observed, last, built, prev>>
knowVars == <<ks, knowledge_dir, ksCall>>
callVars == <<adapterCall, splitCall, askCall>>
vars ==
    <<scoreVars, routerVars, engineVars, searchVars, envVars, lifeVars, knowVars,
      callVars>>

\* no call of the function is under way
Off == [pc |-> "off"]
BuildIdle == [pc |-> "idle"]
Nothing == [op |-> "none"]

\* no KnowledgeService has been constructed
KnowledgeIdle ==
    /\ ks = [knowledge_base_path |-> "docs", documents |-> <<>>, paragraphs |-> <<>>,
             index |-> <<>>, idf_values |-> <<>>]
    /\ knowledge_dir = [base |-> <<>>,
                        json |-> [a \in SeqToSet(KnowledgeArtifacts) |->
                                     [state |-> "absent"]],
                        backup |-> [a \in SeqToSet(KnowledgeArtifacts) |->
                                       [state |-> "absent"]]]
    /\ ksCall = Off

\* an artifact of the index directory
Absent == [state |-> "absent"]
Corrupt == [state |-> "corrupt"]
Stored(data) == [state |-> "ok", data |-> data]

\* the engine the variables hold
Engine == [index |-> index, documents |-> documents,
           competition_docs |-> competition_docs]

\* the components a specification does not exercise stay as constructed
RouterIdle == kb = <<>> /\ kbCall = Off /\ routeCall = Off
LifeIdle ==
    /\ build = BuildIdle /\ observed = Nothing /\ last = Nothing
    /\ built = Nothing /\ prev = Nothing
\* an engine constructed over an empty knowledge base
EngineIdle ==
    /\ index = <<>> /\ documents = <<>> /\ competition_docs = <<>>
    /\ term_order = COMPETITION_TERMS
    /\ path_exists = TRUE /\ files = <<>> /\ events = 0
    /\ disk = [index |-> Stored(<<>>), documents |-> Stored(<<>>),
               competition_docs |-> Stored(<<>>)]
    /\ searchCall = Off /\ LifeIdle

(***************************************************************************)
(* The scorer as a called function.                                        *)
(***************************************************************************)
\* the competition types a caller names: none, and the configured ones
QueryTypes == {<<>>, <<"c", "a">>, <<"b", "b", "c">>}

ScoreCall(q, d, k, dc, ct, t) ==
    [pc |-> "call", query |-> q, doc_text |-> d, keywords |-> k,
     doc_competition |-> dc, competition_type |-> ct, term |-> t, score |-> RZero]

InitScore ==
    /\ \E d \in Str({"a", "b", "S", " "}, MaxDocLen),
          t \in Str({"a", "b", "S"}, MaxTermLen) \ {<<>>},
          dc \in {<<>>, <<"c", "a">>}, ct \in QueryTypes :
        \E q \in {<<>>, t, t \o <<" ", "a", "b">>}, k \in {<<t>>, <<t, <<"b", "a">> >>} :
            scoreCall = ScoreCall(q, d, k, dc, ct, t)
    /\ RouterIdle /\ KnowledgeIdle
    /\ adapterCall = Off /\ splitCall = Off /\ askCall = Off
    /\ EngineIdle

Calculate ==
    /\ scoreCall.pc = "call"
    /\ scoreCall' = [scoreCall EXCEPT
           !.pc = "done",
           !.score = CalculateScore(scoreCall.query, scoreCall.doc_text,
                                    scoreCall.keywords, scoreCall.doc_competition,
                                    scoreCall.competition_type)]
    /\ UNCHANGED <<routerVars, engineVars, searchVars, envVars, lifeVars, knowVars, callVars>>

NextScore == Calculate

SpecScore == InitScore /\ [][NextScore]_vars

(***************************************************************************)
(* C10: for every chunk text C and every query term T that occurs verbatim *)
(* in C, the score of a query whose term list contains T is > 0.           *)
(* (scoreCall.term is a non-empty member of scoreCall.keywords.)           *)
(***************************************************************************)
C10_VerbatimTermScoresPositive ==
    (/\ scoreCall.pc = "done"
     /\ Contains(scoreCall.doc_text, scoreCall.term))
        => RLt(RZero, scoreCall.score)

(***************************************************************************)
(* C20: the competition-type boost multiplies the score only if a target   *)
(* type is given and the chunk's type equals it, contains it or is         *)
(* contained in it; a chunk whose type has no such relation to the target  *)
(* gets the score it gets without a target type, whatever the query is.    *)
(***************************************************************************)
C20_UnrelatedTypeNotBoosted ==
    (/\ scoreCall.pc = "done"
     /\ \/ scoreCall.competition_type = <<>>
        \/ scoreCall.doc_competition = <<>>
        \/ /\ ~Contains(Lower(scoreCall.doc_competition),
                        Lower(scoreCall.competition_type))
           /\ ~Contains(Lower(scoreCall.competition_type),
                        Lower(scoreCall.doc_competition)))
        => scoreCall.score =
               CalculateScore(scoreCall.query, scoreCall.doc_text,
                              scoreCall.keywords, scoreCall.doc_competition, <<>>)

(***************************************************************************)
(* The router and the structured store as called objects.  The store is    *)
(* filled at construction (_load_kb / _build_kb) and only read afterwards. *)
(***************************************************************************)
KbNames == {<<"c", "a">>, <<"b", "b", "c">>}
InfoNames == {<<"T">>, <<"G">>}
Answers == {<<>>, <<"x">>, <<"y">>}
KbInfos == UNION {[D -> Answers] : D \in SUBSET InfoNames}

\* what the question says about the competition and about the information
CompetitionMentions ==
    {<<>>, <<"c", "a">>, <<"b", "b", "c">>, <<"a", "c">>, <<"b", "b">>,
     <<"b", "c">>, <<"c">>}
InfoMentions ==
    {<<>>, <<"t", "i">>, <<"t", "i", "m">>, <<"g", "r">>, <<"g", "r", "t", "i">>,
     <<"w", " ", "t">>, <<"t", " ", "w">>}

\* what semantic_rag.query may hand back
SemanticResults ==
    {[kind |-> "dict", has_answer |-> TRUE, answer |-> <<"x">>,
      response |-> <<>>, confidence |-> Frac(2, 5)],
     [kind |-> "dict", has_answer |-> FALSE, answer |-> <<>>,
      response |-> <<"r">>, confidence |-> Frac(3, 10)],
     [kind |-> "tuple", has_answer |-> TRUE, answer |-> <<"y">>,
      response |-> <<>>, confidence |-> ROne],
     [kind |-> "other", has_answer |-> FALSE, answer |-> <<"z">>,
      response |-> <<>>, confidence |-> RZero]}

InitRouter ==
    /\ \/ kb = <<>>
       \/ \E c \in KbNames, f \in KbInfos :
              kb = << [competition_type |-> c, info |-> f] >>
       \/ \E c \in KbNames, f \in KbInfos, g \in KbInfos :
              kb = << [competition_type |-> c, info |-> f],
                      [competition_type |-> CHOOSE o \in KbNames : o # c, info |-> g] >>
    /\ kbCall = Off
    /\ routeCall = Off
    /\ scoreCall = Off /\ KnowledgeIdle
    /\ adapterCall = Off /\ splitCall = Off /\ askCall = Off
    /\ EngineIdle

\* StructuredCompetitionKB.query(competition_type, info_type)
StructuredQuery ==
    /\ kbCall = Off /\ routeCall = Off
    /\ \E c \in KbNames \cup {<<>>, <<"c">>}, i \in InfoNames \cup {<<>>, <<"Z">>} :
           /\ kbCall' = [pc |-> "done", competition_type |-> c, info_type |-> i,
                         result |-> KbQuery(kb, c, i)]
           /\ UNCHANGED <<kb, routeCall, scoreVars, knowVars, callVars, engineVars, searchVars,
                          envVars, lifeVars>>

\* await QueryRouter.route_query(question)
RouteQuery ==
    /\ kbCall = Off /\ routeCall = Off
    /\ \E c \in CompetitionMentions, i \in InfoMentions, semantic \in SemanticResults :
           /\ routeCall' = RouteQueryOf(kb, c \o <<" ">> \o i, semantic)
           /\ UNCHANGED <<kb, kbCall, scoreVars, knowVars, callVars, engineVars, searchVars,
                          envVars, lifeVars>>

\* the caller is done with the result and may call again
RouterReturn ==
    /\ kbCall # Off \/ routeCall # Off
    /\ kbCall' = Off
    /\ routeCall' = Off
    /\ UNCHANGED <<kb, scoreVars, knowVars, callVars, engineVars, searchVars, envVars, lifeVars>>

NextRouter == StructuredQuery \/ RouteQuery \/ RouterReturn

SpecRouter == InitRouter /\ [][NextRouter]_vars

\* the (competition type, information type) pair has a record in the store
HasRecord(c, i) == c \in KbTypes(kb) /\ i \in DOMAIN KbInfo(kb, c)

(***************************************************************************)
(* C4: when classification resolves both a competition type and an         *)
(* information type and the store holds a record for the pair,             *)
(* route_query returns that record's answer with confidence 1.0 and never  *)
(* calls the semantic path; whenever both engines are called, the          *)
(* structured lookup comes first.                                          *)
(***************************************************************************)
C4_StructuredAnswerShortCircuits ==
    routeCall.pc = "done" =>
        /\ (/\ routeCall.competition_type # <<>>
            /\ routeCall.info_type # <<>>
            /\ HasRecord(routeCall.competition_type, routeCall.info_type))
              => /\ routeCall.answer
                      = KbInfo(kb, routeCall.competition_type)[routeCall.info_type]
                 /\ routeCall.confidence = ROne
                 /\ routeCall.calls = <<"structured">>
        /\ \A n \in 1..Len(routeCall.calls) :
              routeCall.calls[n] = "structured" => n = 1

\* a question naming the competition by alias and the information by pattern
\* only is answered from the store
C4_StructuredHit ==
    /\ routeCall.pc = "done"
    /\ routeCall.question = <<"b", "b", " ", "w", " ", "t">>
    /\ routeCall.competition_type = <<"b", "b", "c">>
    /\ routeCall.info_type = <<"T">>
    /\ HasRecord(<<"b", "b", "c">>, <<"T">>)
    /\ routeCall.from = "structured"
    /\ routeCall.answer = <<"y">>

(***************************************************************************)
(* C5: StructuredCompetitionKB.query returns either None or the answer     *)
(* stored for exactly the requested (competition type, information type)   *)
(* pair, with confidence 1.0; it never returns the answer of another pair. *)
(***************************************************************************)
C5_ExactStoredAnswerOrNone ==
    kbCall.pc = "done" =>
        \/ kbCall.result = NoneResult
        \/ /\ HasRecord(kbCall.competition_type, kbCall.info_type)
           /\ kbCall.result.answer
                = KbInfo(kb, kbCall.competition_type)[kbCall.info_type]
           /\ kbCall.result.confidence = ROne
           /\ kbCall.result.competition_type = kbCall.competition_type
           /\ kbCall.result.info_type = kbCall.info_type

\* a hit on one pair while the store holds a different answer for the other
\* information type of the same competition and for the other competition
C5_HitAmongOtherRecords ==
    /\ kbCall.pc = "done"
    /\ kbCall.result # NoneResult
    /\ kbCall.competition_type = <<"c", "a">>
    /\ kbCall.info_type = <<"G">>
    /\ kbCall.result.answer = <<"y">>
    /\ HasRecord(<<"c", "a">>, <<"T">>)
    /\ KbInfo(kb, <<"c", "a">>)[<<"T">>] = <<"x">>
    /\ HasRecord(<<"b", "b", "c">>, <<"G">>)
    /\ KbInfo(kb, <<"b", "b", "c">>)[<<"G">>] = <<"x">>

(***************************************************************************)
(* Search on a constructed engine.  The engine was built from one of the   *)
(* knowledge bases by a process with some iteration order of the terms, or *)
(* loaded from artifacts one of whose chunk records is damaged, or has     *)
(* lost its chunk store or its competition-type index (_load_index keeps   *)
(* what it read before the artifact that failed).                          *)
(***************************************************************************)
SearchQueries ==
    {<<>>, Null, <<"?">>, <<"c", "a">>, <<"a", "b">>, <<"b", "a", " ", "b">>,
     <<"c", "a", " ", "a", "b">>, <<"b", "b", " ", "b", "a">>}
Thresholds == {RAG_SCORE_THRESHOLD, Frac(12, 1), Frac(20, 1)}

\* the engine states search is called on
Damaged(e, content) ==
    [e EXCEPT !.documents = [k \in DOMAIN e.documents |->
                                IF k = 1 THEN [e.documents[k] EXCEPT !.content = content]
                                ELSE e.documents[k]]]

SearchEngines ==
    [corpus \in Corpora, order \in TermOrders |->
        UNION {IF order = COMPETITION_TERMS
               THEN {e, Damaged(e, NonText), Damaged(e, Null),
                     [e EXCEPT !.documents = <<>>],
                     [e EXCEPT !.competition_docs = <<>>]}
               ELSE {e} : e \in {Builds[corpus, order]}}]

InitSearch ==
    /\ \E corpus \in Corpora, order \in TermOrders :
          /\ files = corpus
          /\ term_order = order
          /\ \E state \in SearchEngines[corpus, order] :
                /\ index = state.index
                /\ documents = state.documents
                /\ competition_docs = state.competition_docs
                /\ disk = [index |-> Stored(state.index),
                           documents |-> Stored(state.documents),
                           competition_docs |-> Stored(state.competition_docs)]
    /\ path_exists = TRUE
    /\ events = 0
    /\ searchCall = Off /\ LifeIdle /\ scoreCall = Off /\ RouterIdle /\ KnowledgeIdle
    /\ adapterCall = Off /\ splitCall = Off /\ askCall = Off

\* SimpleRAG.search(query, competition_type, top_n, score_threshold)
SearchCall ==
    /\ searchCall = Off
    /\ \E query \in SearchQueries, competition_type \in QueryTypes,
          top_n \in (-1)..MaxTopN, score_threshold \in Thresholds :
          \E selected \in {Search(Engine, query, competition_type, top_n,
                                   score_threshold, term_order, <<>>)} :
              \E picks \in IF selected.error \/ selected.results # <<>> THEN {<<>>}
                           ELSE [1..FallbackCount(Engine, top_n) -> DOMAIN documents] :
                  \E out \in {IF picks = <<>> THEN selected
                               ELSE [selected EXCEPT
                                        !.results = FallbackResults(Engine, picks)]} :
                      /\ searchCall' =
                             [pc |-> "done", query |-> query,
                              competition_type |-> competition_type, top_n |-> top_n,
                              score_threshold |-> score_threshold, out |-> out]
                      /\ documents' = StoreAfter(Engine, out.results)
    /\ UNCHANGED <<index, competition_docs, term_order>>
    /\ UNCHANGED <<scoreVars, knowVars, callVars, routerVars, envVars, lifeVars>>

\* SimpleRAG.search_with_filter(query, filter_by_comp_type, score_threshold,
\* max_results): it reads the three structures and builds new dicts
SearchWithFilterCall ==
    /\ searchCall = Off
    /\ \E query \in SearchQueries, filter_by_comp_type \in QueryTypes,
          max_results \in 0..MaxTopN, score_threshold \in Thresholds :
          \E results \in SearchWithFilter(Engine, query, filter_by_comp_type,
                                          score_threshold, max_results, term_order) :
              searchCall' =
                  [pc |-> "filtered", query |-> query,
                   filter_by_comp_type |-> filter_by_comp_type,
                   max_results |-> max_results,
                   score_threshold |-> score_threshold, results |-> results]
    /\ UNCHANGED <<scoreVars, knowVars, callVars, routerVars, engineVars, envVars, lifeVars>>

\* the caller is done with the results and may search again
SearchReturn ==
    /\ searchCall # Off
    /\ searchCall' = Off
    /\ UNCHANGED <<scoreVars, knowVars, callVars, routerVars, engineVars, envVars, lifeVars>>

NextSearch == SearchCall \/ SearchWithFilterCall \/ SearchReturn

SpecSearch == InitSearch /\ [][NextSearch]_vars

(***************************************************************************)
(* C1: for every index state, query, top_n >= 0 and score threshold,       *)
(* search returns at most top_n results, in non-increasing order of score. *)
(***************************************************************************)
C1_AtMostTopNSortedByScore ==
    (searchCall.pc = "done" /\ searchCall.top_n >= 0) =>
        LET results == searchCall.out.results
        IN  /\ Len(results) <= searchCall.top_n
            /\ \A i \in 1..Len(results) : \A j \in (i + 1)..Len(results) :
                   RLe(results[j].score, results[i].score)

\* more chunks reach the threshold than top_n allows, and the ones returned
\* differ in score
C1_TruncatedAndRanked ==
    /\ searchCall.pc = "done"
    /\ searchCall.top_n = 2
    /\ Len(searchCall.out.above_threshold) > 2
    /\ Len(searchCall.out.results) = 2
    /\ RLt(searchCall.out.results[2].score, searchCall.out.results[1].score)

(***************************************************************************)
(* C2: search never lets an exception out, whatever the input (an empty    *)
(* query, an engine without chunks, a punctuation-only query, a query that *)
(* is no string, a damaged chunk): an error inside yields the empty list,  *)
(* and otherwise the result is a list of copies of stored chunks, each     *)
(* with a score, fallback entries being marked.                            *)
(***************************************************************************)
C2_SearchNeverRaises ==
    searchCall.pc = "done" =>
        LET out == searchCall.out
        IN  /\ ~out.raised
            /\ out.error => out.results = <<>>
            /\ ~out.error =>
                  \A n \in 1..Len(out.results) :
                      /\ out.results[n].chunk \in DOMAIN documents
                      /\ out.results[n].content
                            = documents[out.results[n].chunk].content
                      /\ out.results[n].is_fallback
                            => out.results[n].score = MIN_SCORE

\* scoring met a chunk whose content is no string: the error was caught
C2_ErrorCaught ==
    /\ searchCall.pc = "done"
    /\ searchCall.query = <<"a", "b">>
    /\ searchCall.out.error
    /\ documents[1].content = NonText
    /\ ~searchCall.out.raised
    /\ searchCall.out.results = <<>>

(***************************************************************************)
(* C3: when fewer than top_n chunks score at least the threshold T, the    *)
(* relaxed second pass adds only chunks that score at least T/2, and the   *)
(* first and second pass together yield no more than top_n results.        *)
(***************************************************************************)
C3_RelaxedPassBounded ==
    (searchCall.pc = "done" /\ searchCall.out.relaxed) =>
        LET out == searchCall.out
            half == RMul(searchCall.score_threshold, Frac(1, 2))
        IN  /\ \A n \in 1..Len(out.relaxed_results) :
                   RLe(half, out.relaxed_results[n].score)
            /\ Len(out.above_threshold) + Len(out.relaxed_results)
                   <= searchCall.top_n

\* the relaxed pass took a chunk that scores between T/2 and T while a
\* chunk below T/2 was scored too and left out by it
C3_RelaxedPassAdds ==
    /\ searchCall.pc = "done"
    /\ searchCall.out.relaxed
    /\ \E n \in 1..Len(searchCall.out.relaxed_results) :
          RLt(searchCall.out.relaxed_results[n].score, searchCall.score_threshold)
    /\ Len(searchCall.out.above_threshold) + Len(searchCall.out.relaxed_results)
          < searchCall.top_n
    /\ Len(searchCall.out.results)
          > Len(searchCall.out.above_threshold) + Len(searchCall.out.relaxed_results)

(***************************************************************************)
(* C12: when the candidate set of a search is empty (no chunk of the       *)
(* target competition type and no posting-list hit of a query keyword),    *)
(* search returns up to top_n chunks of the corpus, each marked            *)
(* is_fallback and each with score 0.01; with an empty corpus it returns   *)
(* the empty list.                                                         *)
(***************************************************************************)
C12_EmptyCandidatesGiveMarkedFallback ==
    (/\ searchCall.pc = "done"
     /\ DocScores(Engine, searchCall.query,
                  QueryKeywords(searchCall.query, term_order),
                  QueryCompetitionType(searchCall.query,
                                       searchCall.competition_type)) = <<>>)
        => LET results == searchCall.out.results
           IN  /\ Len(results) <= (IF searchCall.top_n > 0 THEN searchCall.top_n ELSE 0)
               /\ \A n \in 1..Len(results) :
                      /\ results[n].is_fallback
                      /\ results[n].score = MIN_SCORE
                      /\ results[n].chunk \in DOMAIN documents
                      /\ results[n].content = documents[results[n].chunk].content
               /\ documents = <<>> => results = <<>>

\* no chunk is a candidate for the query and two chunks are handed back as
\* fallback
C12_TwoFallbackChunks ==
    /\ searchCall.pc = "done"
    /\ searchCall.query = <<"?">>
    /\ searchCall.competition_type = <<>>
    /\ searchCall.top_n = 2
    /\ ~searchCall.out.error
    /\ Len(searchCall.out.results) = 2
    /\ searchCall.out.results[1].is_fallback
    /\ searchCall.out.results[1].chunk # searchCall.out.results[2].chunk

FT == [name |-> <<"c", "a">>, pages |-> << <<"x", "x", "x", " ", "b", "b">> >>,
       error_at |-> 0]
FU == [name |-> <<"x">>, pages |-> << <<"d", "d", "e", "e", "d">> >>, error_at |-> 0]
RankCorpora == {<<FT, FU>>, <<FU, FT>>}
RankEngines == [corpus \in RankCorpora, order \in TermOrders |-> BuildAll(corpus, order)]

InitRank ==
    /\ \E corpus \in RankCorpora, order \in TermOrders :
          /\ files = corpus
          /\ term_order = order
          /\ \E state \in {RankEngines[corpus, order]} :
                /\ index = state.index
                /\ documents = state.documents
                /\ competition_docs = state.competition_docs
                /\ disk = [index |-> Stored(state.index),
                           documents |-> Stored(state.documents),
                           competition_docs |-> Stored(state.competition_docs)]
    /\ path_exists = TRUE
    /\ events = 0
    /\ searchCall = Off /\ LifeIdle /\ scoreCall = Off /\ RouterIdle /\ KnowledgeIdle
    /\ adapterCall = Off /\ splitCall = Off /\ askCall = Off

SpecRank == InitRank /\ [][NextSearch]_vars

\* the chunks of competition type ct that hold a keyword of the query
TaggedWithKeyword(e, keywords, ct) ==
    {k \in DOMAIN e.documents :
        /\ e.documents[k].competition = ct
        /\ \E n \in 1..Len(keywords) : Contains(e.documents[k].content, keywords[n])}

\* the chunks of no competition type that hold no keyword of the query
UnrelatedUntagged(e, keywords) ==
    {k \in DOMAIN e.documents :
        /\ e.documents[k].competition = <<>>
        /\ \A n \in 1..Len(keywords) : ~Contains(e.documents[k].content, keywords[n])}

(***************************************************************************)
(* C11: when the supplied or detected competition type of a query is T and *)
(* a chunk tagged T holds a keyword of the query, search with top_n = 1    *)
(* returns such a tagged chunk, not an untagged chunk without any keyword  *)
(* of the query, and its score is strictly greater than the score          *)
(* _calculate_score gives the query against every such untagged chunk.     *)
(***************************************************************************)
C11_TaggedChunkOutranksUnrelated ==
    (searchCall.pc = "done" /\ searchCall.top_n = 1 /\ ~searchCall.out.error) =>
        \A keywords \in {QueryKeywords(searchCall.query, term_order)},
           ct \in {QueryCompetitionType(searchCall.query, searchCall.competition_type)} :
            (ct # <<>> /\ TaggedWithKeyword(Engine, keywords, ct) # {}) =>
                /\ searchCall.out.results # <<>>
                /\ searchCall.out.results[1].chunk
                      \in TaggedWithKeyword(Engine, keywords, ct)
                /\ \A u \in UnrelatedUntagged(Engine, keywords) :
                      RLt(CalculateScore(searchCall.query, documents[u].content,
                                         keywords, documents[u].competition, ct),
                          searchCall.out.results[1].score)

\* the part of C11 about the chunk returned
C11_TaggedChunkReturned ==
    (searchCall.pc = "done" /\ searchCall.top_n = 1 /\ ~searchCall.out.error) =>
        \A keywords \in {QueryKeywords(searchCall.query, term_order)},
           ct \in {QueryCompetitionType(searchCall.query, searchCall.competition_type)} :
            (ct # <<>> /\ TaggedWithKeyword(Engine, keywords, ct) # {}) =>
                /\ searchCall.out.results # <<>>
                /\ searchCall.out.results[1].chunk
                      \in TaggedWithKeyword(Engine, keywords, ct)

C19_SecondPassSameTypeBoost ==
    (searchCall.pc = "done" /\ ~searchCall.out.error) =>
        LET ct == QueryCompetitionType(searchCall.query, searchCall.competition_type)
            keywords == QueryKeywords(searchCall.query, term_order)
            first_pass == IF ct # <<>> /\ ct \in DOMAIN competition_docs
                          THEN SeqToSet(competition_docs[ct]) ELSE {}
        IN  \A n \in 1..Len(searchCall.out.results) :
                LET r == searchCall.out.results[n]
                    same_type == RMul(CalculateScore(searchCall.query, r.content,
                                                     keywords, r.competition, <<>>),
                                      SAME_TYPE_BOOST)
                IN  (/\ ~r.is_fallback
                     /\ ct # <<>>
                     /\ r.competition = ct
                     /\ r.chunk \notin first_pass)
                        => r.score \in {same_type, RMax(same_type, MIN_SCORE)}

(***************************************************************************)
(* The life of the serving engine: construction at process start (load or  *)
(* build), rebuild_index on the running engine, queries reading it in      *)
(* between, and an environment that changes the PDF files, removes the     *)
(* knowledge base directory and damages the persisted artifacts.           *)
(* rebuild_index runs in steps, since search and rebuild_index are plain   *)
(* methods of one unsynchronised object: clear, one step per PDF file,     *)
(* save.                                                                   *)
(***************************************************************************)
Snapshot(pdf_files, e) ==
    [op |-> "build", files |-> pdf_files, index |-> e.index,
     documents |-> e.documents]

Wrote(op, load_failed, wrote) ==
    [op |-> op, load_failed |-> load_failed, wrote |-> wrote,
     path_exists |-> path_exists, files |-> files]

\* the failures a save may meet within the budget of events
SaveFailures == IF events < MaxEvents THEN 0..Len(ArtifactNames) ELSE {0}

Init ==
    /\ path_exists = TRUE
    /\ events = 0
    /\ \E corpus \in Corpora, order \in TermOrders :
          LET c == Constructed(FALSE, [a \in SeqToSet(ArtifactNames) |-> Absent],
                               TRUE, corpus, order)
          IN  /\ files = corpus
              /\ term_order = order
              /\ index = c.engine.index
              /\ documents = c.engine.documents
              /\ competition_docs = c.engine.competition_docs
              /\ disk = SaveIndex([a \in SeqToSet(ArtifactNames) |-> Absent],
                                  c.engine, 0, FALSE)
              /\ built = Snapshot(corpus, c.engine)
              /\ last = [op |-> "construct", load_failed |-> FALSE, wrote |-> TRUE,
                         path_exists |-> TRUE, files |-> corpus]
    /\ prev = Nothing
    /\ build = BuildIdle
    /\ observed = Nothing
    /\ searchCall = Off /\ scoreCall = Off /\ RouterIdle /\ KnowledgeIdle
    /\ adapterCall = Off /\ splitCall = Off /\ askCall = Off

\* the process is started again: SimpleRAG(rebuild_index)
Restart ==
    /\ build = BuildIdle
    /\ \E rebuild_index \in BOOLEAN, order \in TermOrders :
          \E c \in {Constructed(rebuild_index, disk, path_exists, files, order)} :
              \E fail_at \in IF c.built THEN SaveFailures ELSE {0} :
                  \E truncated \in IF fail_at # 0 THEN BOOLEAN ELSE {FALSE} :
                      /\ term_order' = order
                      /\ index' = c.engine.index
                      /\ documents' = c.engine.documents
                      /\ competition_docs' = c.engine.competition_docs
                      /\ disk' = IF c.built
                                 THEN SaveIndex(disk, c.engine, fail_at, truncated)
                                 ELSE disk
                      /\ events' = IF fail_at # 0 THEN events + 1 ELSE events
                      /\ last' = Wrote("construct", c.load_failed, TRUE)
                      /\ built' = IF c.built THEN Snapshot(files, c.engine) ELSE built
                      /\ prev' = IF c.built THEN built ELSE prev
    /\ UNCHANGED <<path_exists, files, build, observed>>
    /\ UNCHANGED <<scoreVars, knowVars, callVars, routerVars, searchVars>>

\* POST /api/rebuild_index (src/main.py): the handler constructs a SimpleRAG
\* of its own with rebuild_index=True, which builds and saves, drops it and
\* answers "success"; the engine that serves /api/ask is not touched
ApiRebuildIndex ==
    /\ build = BuildIdle
    /\ \E c \in {Constructed(TRUE, disk, path_exists, files, term_order)} :
          \E fail_at \in IF c.built THEN SaveFailures ELSE {0} :
              \E truncated \in IF fail_at # 0 THEN BOOLEAN ELSE {FALSE} :
                  /\ disk' = IF c.built
                             THEN SaveIndex(disk, c.engine, fail_at, truncated)
                             ELSE disk
                  /\ events' = IF fail_at # 0 THEN events + 1 ELSE events
                  /\ last' = Wrote("api_rebuild", FALSE, c.built)
                  /\ built' = IF c.built THEN Snapshot(files, c.engine) ELSE built
                  /\ prev' = IF c.built THEN built ELSE prev
    /\ UNCHANGED <<path_exists, files, build, observed>>
    /\ UNCHANGED <<engineVars, scoreVars, knowVars, callVars, routerVars, searchVars>>

\* rebuild_index() is called: _build_index checks the path and clears
RebuildBegin ==
    /\ build = BuildIdle
    /\ IF path_exists
       THEN /\ index' = <<>>
            /\ documents' = <<>>
            /\ competition_docs' = <<>>
            /\ build' = [pc |-> "files", n |-> 0, doc_id |-> 0, old |-> Engine]
            /\ last' = Wrote("rebuild", FALSE, TRUE)
       ELSE /\ UNCHANGED <<index, documents, competition_docs, build>>
            /\ last' = Wrote("rebuild", FALSE, FALSE)
    /\ UNCHANGED <<term_order, observed, built, prev>>
    /\ UNCHANGED <<envVars, scoreVars, knowVars, callVars, routerVars, searchVars>>

\* one iteration of the loop over the PDF files
RebuildFile ==
    /\ build # BuildIdle
    /\ build.n < Len(files)
    /\ \E b \in {IndexFile([doc_id |-> build.doc_id, index |-> index,
                            documents |-> documents,
                            competition_docs |-> competition_docs],
                           files[build.n + 1], term_order)} :
           /\ index' = b.index
           /\ documents' = b.documents
           /\ competition_docs' = b.competition_docs
           /\ build' = [build EXCEPT !.n = build.n + 1, !.doc_id = b.doc_id]
    /\ UNCHANGED <<term_order, observed, last, built, prev>>
    /\ UNCHANGED <<envVars, scoreVars, knowVars, callVars, routerVars, searchVars>>

\* _save_index, and rebuild_index returns
RebuildSave ==
    /\ build # BuildIdle
    /\ build.n = Len(files)
    /\ \E fail_at \in SaveFailures :
          \E truncated \in IF fail_at # 0 THEN BOOLEAN ELSE {FALSE} :
              /\ disk' = SaveIndex(disk, Engine, fail_at, truncated)
              /\ events' = IF fail_at # 0 THEN events + 1 ELSE events
    /\ build' = BuildIdle
    /\ observed' = Nothing
    /\ built' = Snapshot(files, Engine)
    /\ prev' = built
    /\ UNCHANGED <<path_exists, files, last>>
    /\ UNCHANGED <<engineVars, scoreVars, knowVars, callVars, routerVars, searchVars>>

\* a query reads the engine while the rebuild is under way
Observe ==
    /\ build # BuildIdle
    /\ observed' = [op |-> "read", engine |-> Engine]
    /\ UNCHANGED <<build, last, built, prev>>
    /\ UNCHANGED <<engineVars, envVars, scoreVars, knowVars, callVars, routerVars, searchVars>>

\* the knowledge base directory is removed or put back
TogglePath ==
    /\ build = BuildIdle
    /\ events < MaxEvents
    /\ path_exists' = ~path_exists
    /\ events' = events + 1
    /\ UNCHANGED <<files, disk>>
    /\ UNCHANGED <<engineVars, lifeVars, scoreVars, knowVars, callVars, routerVars, searchVars>>

\* the PDF files change
ChangeFiles ==
    /\ build = BuildIdle
    /\ events < MaxEvents
    /\ \E corpus \in Corpora \ {files} : files' = corpus
    /\ events' = events + 1
    /\ UNCHANGED <<path_exists, disk>>
    /\ UNCHANGED <<engineVars, lifeVars, scoreVars, knowVars, callVars, routerVars, searchVars>>

\* an artifact is deleted or becomes unreadable
DamageArtifact ==
    /\ build = BuildIdle
    /\ events < MaxEvents
    /\ \E a \in SeqToSet(ArtifactNames), damage \in {Absent, Corrupt} :
          /\ disk[a] # damage
          /\ disk' = [disk EXCEPT ![a] = damage]
    /\ events' = events + 1
    /\ UNCHANGED <<path_exists, files>>
    /\ UNCHANGED <<engineVars, lifeVars, scoreVars, knowVars, callVars, routerVars, searchVars>>

Next ==
    \/ Restart
    \/ ApiRebuildIndex
    \/ RebuildBegin
    \/ RebuildFile
    \/ RebuildSave
    \/ Observe
    \/ TogglePath
    \/ ChangeFiles
    \/ DamageArtifact

Spec == Init /\ [][Next]_vars

(***************************************************************************)
(* C6: after any sequence of construction, build, load and rebuild         *)
(* operations, failed loads and a missing corpus path included, every      *)
(* chunk id of a posting list is a key of the chunk store.                 *)
(***************************************************************************)
C6_PostingsResolve == PostingsResolve(index, documents)

(***************************************************************************)
(* Rebuilds over knowledge bases some of whose files cannot be read        *)
(* through: fitz raises when the file is opened or at its second page.     *)
(***************************************************************************)
BuildCorpora ==
    {<<F1, F2>>, <<[F1 EXCEPT !.error_at = 1], F2>>,
     <<F1, [F2 EXCEPT !.error_at = 1]>>, <<[F2 EXCEPT !.error_at = 2], F1>>}

InitBuild ==
    /\ path_exists = TRUE
    /\ events = 0
    /\ \E corpus \in BuildCorpora, order \in TermOrders :
          \E e \in {BuildAll(corpus, order)} :
              /\ files = corpus
              /\ term_order = order
              /\ index = e.index
              /\ documents = e.documents
              /\ competition_docs = e.competition_docs
              /\ disk = [a \in SeqToSet(ArtifactNames) |-> Stored(e[a])]
              /\ built = Snapshot(corpus, e)
              /\ last = [op |-> "construct", load_failed |-> FALSE, wrote |-> TRUE,
                         path_exists |-> TRUE, files |-> corpus]
    /\ prev = Nothing
    /\ build = BuildIdle
    /\ observed = Nothing
    /\ searchCall = Off /\ scoreCall = Off /\ RouterIdle /\ KnowledgeIdle
    /\ adapterCall = Off /\ splitCall = Off /\ askCall = Off

NextBuild == RebuildBegin \/ RebuildFile \/ RebuildSave

SpecBuild == InitBuild /\ [][NextBuild]_vars

(***************************************************************************)
(* C17: a source document whose processing raises during the build is      *)
(* skipped: none of its chunks is in the chunk store, in a posting list or *)
(* in the competition-type index after the build, and the build processes  *)
(* every remaining document.  (The finished build is the build over the    *)
(* files that can be read.)                                                *)
(***************************************************************************)
C17_FailingDocumentSkipped ==
    (build = BuildIdle /\ last.op = "rebuild" /\ last.wrote) =>
        Engine = BuildAll(SelectSeq(files, LAMBDA f : f.error_at = 0), term_order)

(***************************************************************************)
(* C13: persisting writes the term index, the chunk store and the          *)
(* competition-type index as one atomic set: after any persist operation,  *)
(* one that fails after writing some of the files included, the three      *)
(* artifacts belong to the same index generation.  (The environment only   *)
(* removes artifacts or makes them unreadable, so three readable artifacts *)
(* are what persist operations left; every generation that is persisted is *)
(* the build of some knowledge base by some process.)                      *)
(***************************************************************************)
C13_ArtifactsOfOneGeneration ==
    (\A a \in SeqToSet(ArtifactNames) : disk[a].state = "ok") =>
        \E corpus \in Corpora, order \in TermOrders :
            \A a \in SeqToSet(ArtifactNames) :
                disk[a].data = Builds[corpus, order][a]

(***************************************************************************)
(* C14: after an explicit rebuild request has completed successfully, the  *)
(* index structures of the engine that serves queries are the rebuilt      *)
(* ones: queries are answered from the new snapshot, not from the one that *)
(* was active before the request.                                          *)
(***************************************************************************)
C14_ServingEngineIsRebuilt ==
    (last.op = "api_rebuild" /\ last.wrote) =>
        Engine = Builds[last.files, term_order]

(***************************************************************************)
(* C7: a query that runs while the index is being rebuilt sees either the  *)
(* complete old snapshot or the complete new one, never a cleared or       *)
(* partly filled index or a mix of the two.                                *)
(***************************************************************************)
C7_QuerySeesOldOrNew ==
    observed # Nothing =>
        \/ observed.engine = build.old
        \/ observed.engine = Builds[files, term_order]

(***************************************************************************)
(* C8: when the constructor's load meets a missing or unreadable artifact, *)
(* the engine ends up with a fully rebuilt index (nothing, when there is   *)
(* no knowledge base to build from), never with an artifact it loaded next *)
(* to structures that were not loaded with it.                             *)
(***************************************************************************)
C8_LoadFailsClosed ==
    (last.op = "construct" /\ last.load_failed) =>
        Engine = IF last.path_exists THEN Builds[last.files, term_order]
                 ELSE EmptyEngine

(***************************************************************************)
(* C9: two builds from the same document set produce the same posting      *)
(* lists and the same chunk records under the same chunk ids.              *)
(***************************************************************************)
C9_BuildDeterministic ==
    (prev # Nothing /\ built.files = prev.files) =>
        /\ built.index = prev.index
        /\ built.documents = prev.documents


(***************************************************************************)
(* The life of a KnowledgeService: construction over the default           *)
(* knowledge base, then process_pdf and update_knowledge_base in any       *)
(* order.  The locations are the default knowledge base "docs", the        *)
(* directory "txt" process_pdf writes to (data/knowledge/txt), another     *)
(* knowledge base "other" and a path "gone" that does not exist.           *)
(***************************************************************************)
Locations == {"docs", "txt", "other", "gone"}

\* D1: two paragraphs; D2: a paragraph and one too short to be kept; D3: a
\* file that cannot be read
D1 == [title |-> <<"m">>, readable |-> TRUE,
       content |-> <<"a", "a", " ", "b", "b", " ", "a", "a", " ", "c", "c", "\n", "\n",
                     "c", "c", " ", "d", "d", "?", "x", " ", "e", "e">>]
D2 == [title |-> <<"n">>, readable |-> TRUE,
       content |-> <<"b", "b", " ", "e", "e", " ", "b", "b", " ", "e", "e", "\n", "\n", "a", "a">>]
D3 == [title |-> <<"o">>, readable |-> FALSE, content |-> <<>>]
KnowledgeBases ==
    {[docs |-> <<D1, D2>>, other |-> <<D2>>], [docs |-> <<D2, D3>>, other |-> <<D1>>],
     [docs |-> <<D1>>, other |-> <<D1, D2>>]}

\* the PDFs process_pdf is called with: one fitz opens, one it does not
Pdfs ==
    {[stem |-> <<"p">>, opens |-> TRUE,
      text |-> <<"p", "p", " ", "a", "a", " ", "p", "p", " ", "a", "a">>],
     [stem |-> <<"q">>, opens |-> FALSE, text |-> <<>>]}

\* KnowledgeService._save_index: the four files are written one after the
\* other.  fail_at = 0: all are written.  fail_at = n: opening the n-th
\* raises; the files before it are written, the n-th and the files after it
\* stay as they were, and the exception is logged.
KnowledgeSave(json, s, fail_at) ==
    [a \in SeqToSet(KnowledgeArtifacts) |->
        IF fail_at = 0 \/ KnowledgeArtifactPos(a) < fail_at
        THEN [state |-> "ok", data |-> s[a]]
        ELSE json[a]]

\* the four structures the instance holds
Structures(k) == [documents |-> k.documents, paragraphs |-> k.paragraphs,
                  index |-> k.index, idf_values |-> k.idf_values]

\* the directory after a file is written into it: a file of that title is
\* replaced where it is, a new file appears anywhere in the order glob yields
WithFile(dir, file) ==
    IF \E n \in 1..Len(dir) : dir[n].title = file.title
    THEN {[n \in 1..Len(dir) |-> IF dir[n].title = file.title THEN file ELSE dir[n]]}
    ELSE {SubSeq(dir, 1, n) \o <<file>> \o SubSeq(dir, n + 1, Len(dir)) :
             n \in 0..Len(dir)}

InitKnowledge ==
    /\ \E base \in KnowledgeBases :
          \E made \in {CreateIndex(EmptyKnowledge, "docs", base)} :
              /\ ks = [knowledge_base_path |-> "docs", documents |-> made.documents,
                       paragraphs |-> made.paragraphs, index |-> made.index,
                       idf_values |-> made.idf_values]
              /\ knowledge_dir =
                     [base |-> base,
                      json |-> [a \in SeqToSet(KnowledgeArtifacts) |->
                                   [state |-> "ok", data |-> made[a]]],
                      backup |-> [a \in SeqToSet(KnowledgeArtifacts) |->
                                     [state |-> "absent"]]]
    /\ ksCall = Off
    /\ searchCall = Off /\ LifeIdle /\ scoreCall = Off /\ RouterIdle /\ EngineIdle
    /\ adapterCall = Off /\ splitCall = Off /\ askCall = Off

\* lines 430-432 and 460-462: _create_index on the instance as it is, then
\* _save_index
Recreate(op, location, base, json, backup) ==
    \E made \in {CreateIndex(Structures(ks), location, base)} :
        \E fail_at \in 0..Len(KnowledgeArtifacts) :
            /\ ks' = [knowledge_base_path |-> location, documents |-> made.documents,
                      paragraphs |-> made.paragraphs, index |-> made.index,
                      idf_values |-> made.idf_values]
            /\ knowledge_dir' = [base |-> base,
                                 json |-> KnowledgeSave(json, made, fail_at),
                                 backup |-> backup]
            /\ ksCall' = [pc |-> "done", op |-> op, recreated |-> TRUE]

\* KnowledgeService.process_pdf(pdf_path)
ProcessPdf ==
    /\ \E pdf \in Pdfs :
          IF ~pdf.opens
          THEN /\ ksCall' = [pc |-> "done", op |-> "process_pdf", recreated |-> FALSE]
               /\ UNCHANGED <<ks, knowledge_dir>>
          ELSE \E txt \in WithFile(IF "txt" \in DOMAIN knowledge_dir.base
                                   THEN knowledge_dir.base["txt"] ELSE <<>>,
                                   [title |-> pdf.stem, readable |-> TRUE,
                                    content |-> pdf.text]) :
                   Recreate("process_pdf", ks.knowledge_base_path,
                            Put(knowledge_dir.base, "txt", txt),
                            knowledge_dir.json, knowledge_dir.backup)
    /\ UNCHANGED <<scoreVars, routerVars, engineVars, searchVars, envVars, lifeVars>>
    /\ UNCHANGED callVars

\* KnowledgeService.update_knowledge_base(new_docs_path).  copy_fails: the
\* backup raises, and the except branch restores the files of the backup.
UpdateKnowledgeBase ==
    /\ \E new_docs_path \in Locations, copy_fails \in BOOLEAN :
          IF copy_fails
          THEN /\ knowledge_dir' =
                      [knowledge_dir EXCEPT !.json =
                          [a \in SeqToSet(KnowledgeArtifacts) |->
                              IF knowledge_dir.backup[a].state = "absent"
                              THEN knowledge_dir.json[a]
                              ELSE knowledge_dir.backup[a]]]
               /\ ksCall' = [pc |-> "done", op |-> "update_knowledge_base",
                             recreated |-> FALSE]
               /\ UNCHANGED ks
          ELSE Recreate("update_knowledge_base", new_docs_path, knowledge_dir.base,
                        knowledge_dir.json,
                        [a \in SeqToSet(KnowledgeArtifacts) |->
                            IF knowledge_dir.json[a].state = "absent"
                            THEN knowledge_dir.backup[a]
                            ELSE knowledge_dir.json[a]])
    /\ UNCHANGED <<scoreVars, routerVars, engineVars, searchVars, envVars, lifeVars>>
    /\ UNCHANGED callVars

NextKnowledge == ProcessPdf \/ UpdateKnowledgeBase

SpecKnowledge == InitKnowledge /\ [][NextKnowledge]_vars

(***************************************************************************)
(* C16: when process_pdf or update_knowledge_base has re-created the index *)
(* of an instance over an existing knowledge base, the inverted index, the *)
(* paragraph store and the document store are those of the current corpus  *)
(* alone: what _create_index makes of it on empty structures, with no      *)
(* posting, paragraph or document of an earlier build left.                *)
(***************************************************************************)
C16_RecreatedIndexOfCurrentCorpus ==
    (/\ ksCall.pc = "done" /\ ksCall.recreated
     /\ ks.knowledge_base_path \in DOMAIN knowledge_dir.base) =>
        \A fresh \in {CreateIndex(EmptyKnowledge, ks.knowledge_base_path,
                                  knowledge_dir.base)} :
            /\ ks.index = fresh.index
            /\ ks.paragraphs = fresh.paragraphs
            /\ ks.documents = fresh.documents


(***************************************************************************)
(* C22: in the index of KnowledgeService the term frequency of a posting   *)
(* <<paragraph, tf>> of a term is the number of times the term occurs      *)
(* among the tokens of that paragraph.                                     *)
(***************************************************************************)
C22_PostingHoldsTermFrequency ==
    \A term \in DOMAIN ks.index :
        \A n \in 1..Len(ks.index[term]) :
            ks.index[term][n][1] \in DOMAIN ks.paragraphs =>
                \A tokens \in {Tokenize(ks.paragraphs[ks.index[term][n][1]].text)} :
                    ks.index[term][n][2]
                        = Cardinality({i \in 1..Len(tokens) : tokens[i] = term})

(***************************************************************************)
(* RAGAdapter (src/RAGAdapter.py) around the serving engine.               *)
(* SimpleMCPWithRAG wraps a SimpleRAG (SimpleMCPWithRAG.py line 29); the   *)
(* adapter asks hasattr for each method, so an object without the methods  *)
(* is the other implementation it is constructed over.  Keyword arguments  *)
(* are a function from the names given to their values.                    *)
(***************************************************************************)
Implementations == {"SimpleRAG", "object"}

\* hasattr(self.rag, name)
HasAttr(rag, name) ==
    rag = "SimpleRAG" /\ name \in {"search", "search_with_filter", "rebuild_index"}

\* inspect.signature(self.rag.search).parameters.keys(), SimpleRAG.py line 455
SEARCH_PARAMS == {"query", "competition_type", "top_n", "score_threshold", "top_k"}
\* inspect.signature(self.rag.search_with_filter).parameters.keys(), line 813
FILTER_PARAMS == {"query", "filter_by_comp_type", "score_threshold", "max_results"}
\* the defaults of top_n (line 455) and max_results (line 814)
DEFAULT_TOP_N == 5
DEFAULT_MAX_RESULTS == 5

\* lines 27-38 of RAGAdapter.py
SupportedSearchParams(rag) == IF HasAttr(rag, "search") THEN SEARCH_PARAMS ELSE {}
SupportedFilterParams(rag) ==
    IF HasAttr(rag, "search_with_filter") THEN FILTER_PARAMS ELSE {}

\* {k: v for k, v in kwargs.items() if k in supported}
Supported(kwargs, supported) == [k \in DOMAIN kwargs \cap supported |-> kwargs[k]]
\* params[k] = v
WithParam(params, k, v) ==
    [x \in DOMAIN params \cup {k} |-> IF x = k THEN v ELSE params[x]]
\* the argument a call binds to the parameter k
Arg(params, k, default) == IF k \in DOMAIN params THEN params[k] ELSE default

\* lines 62-69: the arguments of search_with_filter
FilterParams(rag, kwargs) ==
    LET filter_params == Supported(kwargs, SupportedFilterParams(rag))
        top_n == IF /\ "max_results" \in DOMAIN kwargs
                    /\ "top_n" \in SupportedFilterParams(rag)
                    /\ "max_results" \notin SupportedFilterParams(rag)
                 THEN WithParam(filter_params, "top_n", kwargs["max_results"])
                 ELSE filter_params
    IN  IF /\ "competition_type" \in DOMAIN kwargs
           /\ "filter_by_comp_type" \in SupportedFilterParams(rag)
        THEN WithParam(top_n, "filter_by_comp_type", kwargs["competition_type"])
        ELSE top_n

\* lines 79-86: the arguments of search
FilteredParams(rag, kwargs) ==
    LET filtered_params == Supported(kwargs, SupportedSearchParams(rag))
        top_n == IF /\ "max_results" \in DOMAIN kwargs
                    /\ "top_n" \in SupportedSearchParams(rag)
                    /\ "max_results" \notin SupportedSearchParams(rag)
                 THEN WithParam(filtered_params, "top_n", kwargs["max_results"])
                 ELSE filtered_params
    IN  IF /\ "filter_by_comp_type" \in DOMAIN kwargs
           /\ "competition_type" \in SupportedSearchParams(rag)
        THEN WithParam(top_n, "competition_type", kwargs["filter_by_comp_type"])
        ELSE top_n

\* what a call of a method of SimpleRAG hands to the caller: search,
\* search_with_filter and rebuild_index are plain functions (def, lines 455,
\* 774 and 813), so the value is the list or the bool itself and no awaitable
Returned(value) == [raised |-> FALSE, awaitable |-> FALSE, value |-> value]

\* await <call>: an exception of the call propagates; a value that is no
\* awaitable makes await raise TypeError
Await(call) ==
    IF call.raised \/ ~call.awaitable THEN [raised |-> TRUE]
    ELSE [raised |-> FALSE, value |-> call.value]

\* the lists SimpleRAG.search(query, **params) may return
EngineSearch(e, query, params, order) ==
    UNION {IF selected.error \/ selected.results # <<>> THEN {selected.results}
           ELSE {FallbackResults(e, picks) :
                    picks \in [1..FallbackCount(e, Arg(params, "top_n", DEFAULT_TOP_N))
                                  -> DOMAIN e.documents]} :
              selected \in {Search(e, query, Arg(params, "competition_type", <<>>),
                                   Arg(params, "top_n", DEFAULT_TOP_N),
                                   Arg(params, "score_threshold", RAG_SCORE_THRESHOLD),
                                   order, <<>>)}}

\* the lists SimpleRAG.search_with_filter(query, **params) may return
EngineSearchWithFilter(e, query, params, order) ==
    SearchWithFilter(e, query, Arg(params, "filter_by_comp_type", <<>>),
                     Arg(params, "score_threshold", RAG_SCORE_THRESHOLD),
                     Arg(params, "max_results", DEFAULT_MAX_RESULTS), order)

\* lines 53-104: the calls RAGAdapter.search(query, **kwargs) may make of the
\* engine, each with what the engine returned
AdapterEngineCalls(rag, e, query, kwargs, order) ==
    IF /\ "filter_by_comp_type" \in DOMAIN kwargs
       /\ kwargs["filter_by_comp_type"] # <<>>
       /\ HasAttr(rag, "search_with_filter")
    THEN UNION {{[method |-> "search_with_filter", params |-> params,
                  call |-> Returned(results)] :
                    results \in EngineSearchWithFilter(e, query, params, order)} :
                   params \in {FilterParams(rag, kwargs)}}
    ELSE IF HasAttr(rag, "search")
         THEN UNION {{[method |-> "search", params |-> params,
                       call |-> Returned(results)] :
                         results \in EngineSearch(e, query, params, order)} :
                        params \in {FilteredParams(rag, kwargs)}}
         ELSE {[method |-> "none"]}

\* RAGAdapter.search: return await self.rag.<method>(...), [] without a search
\* method, except Exception: return []
AdapterSearchOf(engine_call) ==
    IF engine_call.method = "none" THEN <<>>
    ELSE LET awaited == Await(engine_call.call)
         IN  IF awaited.raised THEN <<>> ELSE awaited.value

\* SimpleRAG.rebuild_index on the engine e: _build_index returns at once when
\* the path is missing and catches what a file raises, _save_index catches
\* what the writing raises, and rebuild_index returns True after them
RebuildIndex(e, path, pdf_files, order) ==
    [engine |-> BuildIndex(e, path, pdf_files, order),
     rebuilt |-> path, call |-> Returned(TRUE)]

\* RAGAdapter.rebuild_index on what the engine's rebuild_index handed back
AdapterRebuildIndexOf(rag, engine_call) ==
    IF HasAttr(rag, "rebuild_index")
    THEN LET awaited == Await(engine_call)
         IN  IF awaited.raised THEN FALSE ELSE awaited.value
    ELSE FALSE

(***************************************************************************)
(* Calls through the adapter and calls of rebuild_index on a serving       *)
(* engine, while the knowledge base directory and its files change.        *)
(***************************************************************************)
NoKwargs == [k \in {} |-> 0]
AdapterKwargs ==
    {NoKwargs, [top_n |-> 2], [max_results |-> 1],
     [filter_by_comp_type |-> <<"c", "a">>],
     [filter_by_comp_type |-> <<>>, top_n |-> 1],
     [competition_type |-> <<"b", "b", "c">>],
     [filter_by_comp_type |-> <<"c", "a">>, competition_type |-> <<"b", "b", "c">>],
     [session_id |-> 1]}
AdapterQueries == {Null, <<"?">>, <<"c", "a">>, <<"a", "b">>}

InitAdapter ==
    /\ \E corpus \in Corpora, order \in TermOrders :
          \E e \in {Builds[corpus, order]} :
              /\ files = corpus
              /\ term_order = order
              /\ index = e.index
              /\ documents = e.documents
              /\ competition_docs = e.competition_docs
              /\ disk = [a \in SeqToSet(ArtifactNames) |-> Stored(e[a])]
    /\ path_exists = TRUE
    /\ events = 0
    /\ searchCall = Off /\ LifeIdle /\ scoreCall = Off /\ RouterIdle /\ KnowledgeIdle
    /\ adapterCall = Off /\ splitCall = Off /\ askCall = Off

\* await RAGAdapter(rag).search(query, **kwargs)
AdapterSearch ==
    /\ adapterCall = Off
    /\ \E rag \in Implementations, query \in AdapterQueries, kwargs \in AdapterKwargs :
          \E engine_call \in AdapterEngineCalls(rag, Engine, query, kwargs, term_order) :
              adapterCall' = [pc |-> "done", op |-> "search", rag |-> rag,
                              query |-> query, kwargs |-> kwargs,
                              engine |-> engine_call,
                              value |-> AdapterSearchOf(engine_call)]
    /\ UNCHANGED <<splitCall, askCall>>
    /\ UNCHANGED <<scoreVars, knowVars, routerVars, engineVars, searchVars, envVars,
                   lifeVars>>

\* SimpleRAG.rebuild_index() is called on the engine
EngineRebuildIndex ==
    /\ adapterCall = Off
    /\ \E r \in {RebuildIndex(Engine, path_exists, files, term_order)} :
          \E fail_at \in IF r.rebuilt THEN SaveFailures ELSE {0} :
              \E truncated \in IF fail_at # 0 THEN BOOLEAN ELSE {FALSE} :
                  /\ index' = r.engine.index
                  /\ documents' = r.engine.documents
                  /\ competition_docs' = r.engine.competition_docs
                  /\ disk' = IF r.rebuilt
                             THEN SaveIndex(disk, r.engine, fail_at, truncated)
                             ELSE disk
                  /\ events' = IF fail_at # 0 THEN events + 1 ELSE events
                  /\ adapterCall' = [pc |-> "done", op |-> "rebuild_index",
                                     rebuilt |-> r.rebuilt,
                                     saved |-> r.rebuilt /\ fail_at = 0,
                                     engine |-> r.call, value |-> r.call.value]
    /\ UNCHANGED <<term_order, path_exists, files, splitCall, askCall>>
    /\ UNCHANGED <<scoreVars, knowVars, routerVars, searchVars, lifeVars>>

\* await RAGAdapter(rag).rebuild_index()
AdapterRebuildIndex ==
    /\ adapterCall = Off
    /\ \E rag \in Implementations :
          IF HasAttr(rag, "rebuild_index")
          THEN \E r \in {RebuildIndex(Engine, path_exists, files, term_order)} :
                  \E fail_at \in IF r.rebuilt THEN SaveFailures ELSE {0} :
                      \E truncated \in IF fail_at # 0 THEN BOOLEAN ELSE {FALSE} :
                          /\ index' = r.engine.index
                          /\ documents' = r.engine.documents
                          /\ competition_docs' = r.engine.competition_docs
                          /\ disk' = IF r.rebuilt
                                     THEN SaveIndex(disk, r.engine, fail_at, truncated)
                                     ELSE disk
                          /\ events' = IF fail_at # 0 THEN events + 1 ELSE events
                          /\ adapterCall' =
                                 [pc |-> "done", op |-> "adapter_rebuild_index",
                                  rag |-> rag, ran |-> TRUE, rebuilt |-> r.rebuilt,
                                  saved |-> r.rebuilt /\ fail_at = 0,
                                  engine |-> r.call,
                                  value |-> AdapterRebuildIndexOf(rag, r.call)]
          ELSE /\ adapterCall' =
                      [pc |-> "done", op |-> "adapter_rebuild_index", rag |-> rag,
                       ran |-> FALSE, rebuilt |-> FALSE, saved |-> FALSE,
                       engine |-> Returned(FALSE),
                       value |-> AdapterRebuildIndexOf(rag, Returned(FALSE))]
               /\ UNCHANGED <<index, documents, competition_docs, disk, events>>
    /\ UNCHANGED <<term_order, path_exists, files, splitCall, askCall>>
    /\ UNCHANGED <<scoreVars, knowVars, routerVars, searchVars, lifeVars>>

\* the caller is done with the value and may call again
AdapterReturn ==
    /\ adapterCall # Off
    /\ adapterCall' = Off
    /\ UNCHANGED <<splitCall, askCall>>
    /\ UNCHANGED <<scoreVars, knowVars, routerVars, engineVars, searchVars, envVars,
                   lifeVars>>

NextAdapter ==
    \/ AdapterSearch
    \/ EngineRebuildIndex
    \/ AdapterRebuildIndex
    \/ AdapterReturn
    \/ TogglePath
    \/ ChangeFiles

SpecAdapter == InitAdapter /\ [][NextAdapter]_vars

(* C27: RAGAdapter.search returns exactly the list the wrapped engine's search produced whenever that search completes without error, and the empty list only when the engine has no search method or the engine's search fails. *)
C27_AdapterReturnsEngineList ==
    (adapterCall.pc = "done" /\ adapterCall.op = "search") =>
        adapterCall.value
            = IF adapterCall.engine.method = "none" THEN <<>>
              ELSE IF adapterCall.engine.call.raised THEN <<>>
              ELSE adapterCall.engine.call.value

(* C28: RAGAdapter.rebuild_index returns True exactly when the wrapped engine's rebuild_index was run and reported success, and False exactly when the engine has no such method or its rebuild failed. *)
C28_AdapterReportsEngineRebuild ==
    (adapterCall.pc = "done" /\ adapterCall.op = "adapter_rebuild_index") =>
        adapterCall.value
            = (/\ adapterCall.ran
               /\ ~adapterCall.engine.raised
               /\ adapterCall.engine.value)

(* C29: SimpleRAG.rebuild_index returns True only if the in-memory index was rebuilt from the corpus and the rebuilt index was persisted; with the corpus path missing or the persisting failed it returns False. *)
C29_TrueOnlyIfRebuiltAndSaved ==
    (adapterCall.pc = "done" /\ adapterCall.op = "rebuild_index") =>
        adapterCall.value = (adapterCall.rebuilt /\ adapterCall.saved)

(* C25: the list returned by one SimpleRAG.search call never contains the same chunk twice, whichever of the selection stages (above threshold, relaxed threshold, remaining chunks) or the random fallback contributed the entries. *)
C25_NoChunkTwice ==
    searchCall.pc = "done" =>
        \A i, j \in 1..Len(searchCall.out.results) :
            searchCall.out.results[i].chunk = searchCall.out.results[j].chunk => i = j

(* C26: for every chunk scored during a search the configured competition-type boost factor multiplies the chunk's score at most once.  (The score of a selected chunk is its score without the boost, or that score with the factor applied once, by _calculate_score or by search; the second pass may multiply by 3/2 and the filling up may raise the score to 0.01.) *)
C26_BoostAppliedAtMostOnce ==
    (searchCall.pc = "done" /\ ~searchCall.out.error) =>
        \A ct \in {QueryCompetitionType(searchCall.query, searchCall.competition_type)},
           keywords \in {QueryKeywords(searchCall.query, term_order)} :
            \A n \in 1..Len(searchCall.out.results) :
                \A r \in {searchCall.out.results[n]} :
                    ~r.is_fallback =>
                        \A unboosted \in {CalculateScore(searchCall.query, r.content,
                                                         keywords, r.competition, <<>>)} :
                            LET once == {unboosted,
                                         RMul(unboosted, COMPETITION_TYPE_BOOST_FACTOR),
                                         CalculateScore(searchCall.query, r.content,
                                                        keywords, r.competition, ct)}
                                passes == once \cup {RMul(x, SAME_TYPE_BOOST) : x \in once}
                            IN  r.score \in passes \cup {RMax(x, MIN_SCORE) : x \in passes}

(***************************************************************************)
(* _split_text as a called function: a text of up to MaxParagraphs lines,  *)
(* a chunk size and the chunk_overlap of the engine (both come from the    *)
(* settings, RAG_CHUNK_SIZE and RAG_CHUNK_OVERLAP of src/config.py, which  *)
(* the environment of the process may set).                                *)
(***************************************************************************)
SplitLinesOf ==
    {<<>>, <<" ">>, <<"a">>, <<"b", "b">>, <<"a", " ", "b">>, <<" ", "b", "a">>,
     <<"b", " ", "a", " ", "a">>, <<"a", "b", " ", "b", "a", " ", "b">>}
ChunkSizes == {2, 4, 8}
ChunkOverlaps == {0, 5, 10, 20}

\* "\n".join(lines)
RECURSIVE JoinLines(_)
JoinLines(lines) ==
    IF lines = <<>> THEN <<>>
    ELSE IF Len(lines) = 1 THEN lines[1]
         ELSE lines[1] \o <<"\n">> \o JoinLines(Tail(lines))

SplitTexts ==
    {JoinLines(lines) : lines \in UNION {[1..n -> SplitLinesOf] : n \in 1..MaxParagraphs}}

InitSplit ==
    /\ \E text \in SplitTexts, chunk_size \in ChunkSizes, chunk_overlap \in ChunkOverlaps :
          splitCall = [pc |-> "called", text |-> text, chunk_size |-> chunk_size,
                       chunk_overlap |-> chunk_overlap]
    /\ scoreCall = Off /\ RouterIdle /\ EngineIdle /\ KnowledgeIdle
    /\ adapterCall = Off /\ askCall = Off

\* chunks = self._split_text(text, chunk_size)
DoSplitText ==
    /\ splitCall.pc = "called"
    /\ \E chunks \in {SplitTextWith(splitCall.text, splitCall.chunk_size,
                                    splitCall.chunk_overlap)} :
          splitCall' = [pc |-> "done", text |-> splitCall.text,
                        chunk_size |-> splitCall.chunk_size,
                        chunk_overlap |-> splitCall.chunk_overlap, chunks |-> chunks]
    /\ UNCHANGED <<adapterCall, askCall>>
    /\ UNCHANGED <<scoreVars, knowVars, routerVars, engineVars, searchVars, envVars,
                   lifeVars>>

NextSplit == DoSplitText

SpecSplit == InitSplit /\ [][NextSplit]_vars

\* the chunks of a call that were closed with another chunk after them
Closed(call) == 1..(Len(call.chunks) - 1)

(* C24: when _split_text closes a chunk, the seed of the next chunk holds at most ceil(chunk_overlap / 10) whitespace tokens of the closed chunk, so with chunk_overlap = 0 no text of the closed chunk is repeated in the next one. *)
C24_SeedWithinOverlap ==
    splitCall.pc = "done" =>
        \A n \in Closed(splitCall) :
            Len(Split(OverlapText(splitCall.chunks[n], splitCall.chunk_overlap)))
                <= (splitCall.chunk_overlap + 9) \div 10

\* the lines of the chunks, one chunk after the other
RECURSIVE ChunkLines(_)
ChunkLines(chunks) ==
    IF chunks = <<>> THEN <<>>
    ELSE SplitLines(Head(chunks), 1, <<>>) \o ChunkLines(Tail(chunks))

\* the elements of ps are met in this order when going through ls
RECURSIVE InOrderAmong(_, _)
InOrderAmong(ps, ls) ==
    IF ps = <<>> THEN TRUE
    ELSE IF ls = <<>> THEN FALSE
    ELSE IF Head(ps) = Head(ls) THEN InOrderAmong(Tail(ps), Tail(ls))
    ELSE InOrderAmong(ps, Tail(ls))

\* the paragraphs of a text that are not empty or whitespace-only
Paragraphs(text) == SelectSeq(SplitLines(text, 1, <<>>), LAMBDA para : ~Blank(para))

(* C30: _split_text drops no text: every paragraph of the input that is not empty or whitespace-only is a whole line of some emitted chunk, and the paragraphs are met in their original order when the chunks are read one after the other. *)
C30_NoParagraphDropped ==
    splitCall.pc = "done" =>
        InOrderAmong(Paragraphs(splitCall.text), ChunkLines(splitCall.chunks))

\* a text of three paragraphs, one of them longer than the chunk size, was
\* split into several chunks with an overlap carried over
C30_LongParagraphKept ==
    /\ splitCall.pc = "done"
    /\ splitCall.text = <<"a", " ", "b", "\n",
                          "a", "b", " ", "b", "a", " ", "b", "\n", "b", "b">>
    /\ splitCall.chunk_size = 4
    /\ splitCall.chunk_overlap = 10
    /\ Len(splitCall.chunks) = 3
    /\ splitCall.chunks[2] = <<"b", "\n", "a", "b", " ", "b", "a", " ", "b", "\n">>

(* C23: if classification leaves the competition type or the information type unresolved, or no structured record exists for the resolved pair, route_query invokes the semantic path exactly once and returns that path's answer with the confidence that path reported, unchanged.  (The path reports a confidence in a dict or as the second element of a tuple.) *)
C23_SemanticAnswerUnchanged ==
    (/\ routeCall.pc = "done"
     /\ \/ routeCall.competition_type = <<>>
        \/ routeCall.info_type = <<>>
        \/ ~HasRecord(routeCall.competition_type, routeCall.info_type))
        => /\ Len(SelectSeq(routeCall.calls, LAMBDA call : call = "semantic")) = 1
           /\ routeCall.from = "semantic"
           /\ routeCall.semantic.kind \in {"dict", "tuple"} =>
                 /\ routeCall.confidence = routeCall.semantic.confidence
                 /\ routeCall.semantic.has_answer =>
                       routeCall.answer = routeCall.semantic.answer

\* both types are resolved, the store has no record of the pair, and the
\* answer of the semantic path comes back with its confidence 0.4
C23_NoRecordGoesSemantic ==
    /\ routeCall.pc = "done"
    /\ routeCall.competition_type # <<>>
    /\ routeCall.info_type # <<>>
    /\ ~HasRecord(routeCall.competition_type, routeCall.info_type)
    /\ routeCall.calls = <<"structured", "semantic">>
    /\ routeCall.semantic.kind = "dict"
    /\ routeCall.answer = <<"x">>
    /\ routeCall.confidence = Frac(2, 5)

(***************************************************************************)
(* POST /api/ask (src/main.py lines 96-146): route_query runs under        *)
(* asyncio.wait_for with a timer of 15 seconds.  The structured store is   *)
(* empty here, so route_query takes the semantic path:                     *)
(* SimpleMCPWithRAG.query calls the adapter, the adapter the engine's      *)
(* search.  search is a plain function: it scores chunk after chunk        *)
(* without giving control to the event loop, so a timer that comes due     *)
(* meanwhile is handled by the loop only when the task suspends or ends.   *)
(* The question is request.text after strip() and enhance_question.        *)
(***************************************************************************)
AskQuestions == {<<>>, <<"?">>, <<"c", "a">>, <<"a", "b">>, <<"b", "a", " ", "b">>}

\* lines 105-110 of main.py: the answer to an empty question
EmptyQuestionResponse ==
    [kind |-> "empty", confidence |-> RZero, sources |-> <<>>, suspended |-> FALSE]

\* lines 129-134 of main.py: the answer after asyncio.TimeoutError
TimeoutResponse ==
    [kind |-> "timeout", confidence |-> Frac(3, 10), sources |-> <<>>,
     suspended |-> TRUE]

\* SimpleMCPWithRAG.query lines 51-166 on the docs the adapter returned:
\* without docs the backup answer with confidence 0.4, and no await on the
\* way suspends (generate_backup_answer awaits nothing); with docs the
\* answer of the language model, whose request suspends the task
SemanticQuery(docs) ==
    IF docs = <<>>
    THEN [kind |-> "backup", confidence |-> Frac(2, 5), sources |-> <<>>,
          suspended |-> FALSE]
    ELSE [kind |-> "answer", confidence |-> Frac(1, 2), sources |-> docs,
          suspended |-> TRUE]

\* asyncio.wait_for(route_query(...), timeout=15.0), lines 124-134: the timer
\* that is due cancels the task where the task is suspended; a task that ends
\* without suspending hands its result over
WaitFor(result, expired) ==
    IF result.suspended /\ expired THEN TimeoutResponse ELSE result

\* the number of chunks search scores for the question (lines 499-538)
ChunksToScore(e, question, order) ==
    Len(DocScores(e, question, QueryKeywords(question, order),
                  QueryCompetitionType(question, <<>>)))

InitAsk ==
    /\ \E corpus \in Corpora, order \in TermOrders :
          \E e \in {Builds[corpus, order]} :
              /\ files = corpus
              /\ term_order = order
              /\ index = e.index
              /\ documents = e.documents
              /\ competition_docs = e.competition_docs
              /\ disk = [a \in SeqToSet(ArtifactNames) |-> Stored(e[a])]
    /\ path_exists = TRUE
    /\ events = 0
    /\ searchCall = Off /\ LifeIdle /\ scoreCall = Off /\ RouterIdle /\ KnowledgeIdle
    /\ adapterCall = Off /\ splitCall = Off /\ askCall = Off

\* a request arrives: the empty question is answered at once, any other goes
\* down to search, which starts to score
AskQuestion ==
    /\ askCall = Off
    /\ \E question \in AskQuestions :
          askCall' = IF question = <<>>
                     THEN [pc |-> "done", question |-> question, expired |-> FALSE,
                           scored |-> 0, late |-> 0,
                           response |-> EmptyQuestionResponse]
                     ELSE [pc |-> "scoring", question |-> question,
                           expired |-> FALSE, scored |-> 0, late |-> 0]
    /\ UNCHANGED <<adapterCall, splitCall>>
    /\ UNCHANGED <<scoreVars, knowVars, routerVars, engineVars, searchVars, envVars,
                   lifeVars>>

\* the 15 seconds of wait_for are over
TimeoutFires ==
    /\ askCall.pc = "scoring"
    /\ ~askCall.expired
    /\ askCall' = [askCall EXCEPT !.expired = TRUE]
    /\ UNCHANGED <<adapterCall, splitCall>>
    /\ UNCHANGED <<scoreVars, knowVars, routerVars, engineVars, searchVars, envVars,
                   lifeVars>>

\* one iteration of the scoring loops of search: nothing in them looks at a
\* timer or a cancellation
ScoreChunk ==
    /\ askCall.pc = "scoring"
    /\ askCall.scored < ChunksToScore(Engine, askCall.question, term_order)
    /\ askCall' = [askCall EXCEPT !.scored = @ + 1,
                                  !.late = IF askCall.expired THEN @ + 1 ELSE @]
    /\ UNCHANGED <<adapterCall, splitCall>>
    /\ UNCHANGED <<scoreVars, knowVars, routerVars, engineVars, searchVars, envVars,
                   lifeVars>>

\* search returns, the adapter hands on what its await leaves, the semantic
\* path answers and wait_for hands the outcome to ask_question
AskAnswer ==
    /\ askCall.pc = "scoring"
    /\ askCall.scored = ChunksToScore(Engine, askCall.question, term_order)
    /\ \E engine_call \in AdapterEngineCalls("SimpleRAG", Engine, askCall.question,
                                            NoKwargs, term_order) :
          \E docs \in {AdapterSearchOf(engine_call)} :
              askCall' = [pc |-> "done", question |-> askCall.question,
                          expired |-> askCall.expired, scored |-> askCall.scored,
                          late |-> askCall.late,
                          response |-> WaitFor(SemanticQuery(docs), askCall.expired)]
    /\ UNCHANGED <<adapterCall, splitCall>>
    /\ UNCHANGED <<scoreVars, knowVars, routerVars, engineVars, searchVars, envVars,
                   lifeVars>>

\* the response is sent
AskReturn ==
    /\ askCall.pc = "done"
    /\ askCall' = Off
    /\ UNCHANGED <<adapterCall, splitCall>>
    /\ UNCHANGED <<scoreVars, knowVars, routerVars, engineVars, searchVars, envVars,
                   lifeVars>>

NextAsk == AskQuestion \/ TimeoutFires \/ ScoreChunk \/ AskAnswer \/ AskReturn

SpecAsk == InitAsk /\ [][NextAsk]_vars

(* C21: when the timeout fires while a query is being processed, the retrieval pipeline scores no further chunk and the caller receives the "not completed" outcome, never a result list or an answer presented as a normal answer. *)
C21_TimeoutAbandonsScoring ==
    /\ [][(askCall.pc = "scoring" /\ askCall.expired)
              => askCall'.scored = askCall.scored]_vars
    /\ []((askCall.pc = "done" /\ askCall.expired)
              => askCall.response.kind = "timeout")

=============================================================================
